---- MODULE Spec2Model ----
(***************************************************************************)
(* Ground-station coordination: the hub registry (AntennaManager and the   *)
(* ServerMQTTClient handlers that drive it) and the device daemon          *)
(* (StateManager, TrackingLoop, ClientMQTTClient, maintenance loop).       *)
(***************************************************************************)
EXTENDS Integers, Sequences, FiniteSets, TLC

(***************************************************************************)
(* Model bounds                                                            *)
(***************************************************************************)
\* number of ClientState objects the hub may allocate
MaxRecs == 3

None == "none"

(***************************************************************************)
(* HUB: AntennaManager + ServerMQTTClient                                  *)
(***************************************************************************)
VARIABLES
    clients,      \* AntennaManager._clients: station id -> record id (0: absent)
    heap,         \* ClientState objects by record id
    nextRid,      \* next unused record id
    h_pc,         \* position of the hub's MQTT network thread
    h_msg,        \* the message that thread is handling
    ui_pc,        \* position of the UI thread inside push_track / push_stop
    ui_c,         \* the local reference c the UI thread took in its lookup
    ui_arg,       \* arguments of the running push_track / push_stop
    cmds          \* the command last published on the bus by the hub

hubVars == <<clients, heap, nextRid, h_pc, h_msg, ui_pc, ui_c, ui_arg, cmds>>

\* the device daemon's state (StateManager, TrackingLoop, ClientMQTTClient, main.py)
VARIABLES
    clock,        \* wall clock, seconds (time.time(), datetime.now)
    cfg_gps,      \* cfg["gps_type"]: "pigpio" or "none"
    sm_state,     \* StateManager._state
    sm_error,     \* StateManager._error_detail
    sm_since,     \* StateManager._state_since
    obs_reg,      \* on_transition / on_telemetry callbacks are wired (main.py 150-153)
    cb_pending,   \* threads that are inside transition()'s fan-out, lock released
    pub_state,    \* payload last published on the retained state topic
    pub_telem,    \* loop thread whose az/el was last published on telemetry
    mq_connected, \* ClientMQTTClient._connected
    link_down_at, \* instant the link went down (0 while it is up): the bus, not a field
    gps_conn,     \* PigpioGPS._connected
    gps_fix,      \* PigpioGPS.data["fix"]
    stop_event,   \* main.py stop_event
    trk_running,  \* TrackingLoop._running
    trk_active,   \* TrackingLoop.active
    trk_thread,   \* TrackingLoop._thread (0: None)
    trk_sat,      \* TrackingLoop.sat_name / norad_id
    trk_az,       \* TrackingLoop.current_az / current_el: the loop thread that stored it
    l_pc,         \* position of each loop thread
    l_set,        \* set_time captured by each loop thread's closure
    l_cap,        \* loop threads the process can have alive at once in this run
    n_pc,         \* position of the paho network thread (ClientMQTTClient callbacks)
    n_msg,        \* track payload being handled
    m_pc,         \* position of daemon_startup (main thread)
    m_now,        \* maintenance loop local: now
    m_cur,        \* maintenance loop local: cur_state
    m_ds,         \* maintenance loop local: disconnect_start
    m_lra,        \* maintenance loop local: last_reconnect_attempt
    m_lgr,        \* maintenance loop local: last_gps_reconnect
    m_llt,        \* maintenance loop local: last_location_time
    m_tries,      \* iterations left in the running "for _ in range(120)" GPS wait
    sig_pc,       \* position of sigterm_handler
    sm_req,       \* a direct caller of StateManager.transition: the state it asked for
    sm_det,       \* ... the error_detail it supplied
    sm_ret,       \* ... and the value transition() returned to it
    sm_calls,     \* ... and the number of its calls
    obs_raises,   \* an observer that raises is registered ahead of the publishing one
    tel_raises,   \* a telemetry callback that raises is registered ahead of the publishing one
    bus,          \* the broker: retained station messages, and those not yet delivered to the hub
    am_lock,      \* AntennaManager._lock: the thread inside a "with self._lock" block, or None
    am_th,        \* per thread, its position inside an AntennaManager method
    am_cbs,       \* AntennaManager._callbacks: what each registered callback does
    pp_in,        \* arguments of a pass_prediction / propagator call
    pp_out,       \* what that call returned
    satellite_data,  \* globe_display.satellite_data: catalog id -> loaded element set
    satrec_cache,    \* propagator._satrec_cache: catalog id -> element set its Satrec was built from
    satrec_builds,   \* omm_to_satrec calls per catalog id since the last clear_satrec_cache
    satrec_ret,      \* the last get_satrec call: its argument and the Satrec it returned
    satrec_array,    \* propagator._satrec_array, _satrec_array_ids, _satrec_array_type_indices
    rd_th,           \* a thread inside propagate_batch or get_satrec: position and what it read
    rb_th,           \* a thread inside on_satellites_changed: position and the new list
    pb_built         \* per thread inside publish_state: the payload it has built, not yet sent

smVars   == <<sm_state, sm_error, sm_since, cb_pending>>
pubVars  == <<pub_state, pub_telem>>
gpsVars  == <<gps_conn, gps_fix>>
trkVars  == <<trk_running, trk_active, trk_thread, trk_sat, trk_az>>
loopVars == <<l_pc, l_set, l_cap>>
netVars  == <<n_pc, n_msg>>
mainVars == <<m_pc, m_now, m_cur, m_ds, m_lra, m_lgr, m_llt, m_tries>>
linkVars == <<mq_connected, link_down_at>>
raceVars == <<satrec_array, rd_th, rb_th, pb_built>>
extVars  == <<am_lock, am_th, am_cbs, pp_in, pp_out, satellite_data, satrec_cache,
              satrec_builds, satrec_ret, raceVars>>
apiVars  == <<sm_req, sm_det, sm_ret, sm_calls, obs_raises, tel_raises, bus, extVars>>
devVars  == <<clock, cfg_gps, obs_reg, linkVars, stop_event, sig_pc, apiVars,
              smVars, pubVars, gpsVars, trkVars, loopVars, netVars, mainVars>>

Stations == {"rpi-1", "rpi-2"}
\* values of payload["state"] on the wire ("" : key absent or empty)
WireStates == {"ready", "tracking", "offline", ""}
\* tracking targets (TrackingInfo.name); None is JSON null
Targets == {"ISS"}
GpsFixes == {"fixA"}
AzEls == {0, 1}

NoRec == [rid |-> 0, status |-> None, gps |-> None, tracking |-> None, telem |-> 0]
NoArg == [sid |-> None, target |-> None]
NoMsg == [sid |-> None, state |-> "", tracking |-> None]

\* ClientState(client_id, hostname, capabilities, status): the pydantic defaults
NewClientState(rid, status) ==
    [rid |-> rid, status |-> status, gps |-> None, tracking |-> None, telem |-> 0]

\* self._clients.get(client_id)
Lookup(sid) == clients[sid]

HubInit ==
    /\ clients = [s \in Stations |-> 0]
    /\ heap = [r \in 1..MaxRecs |-> NoRec]
    /\ nextRid = 1
    /\ h_pc = "idle"
    /\ h_msg = NoMsg
    /\ ui_pc = "idle"
    /\ ui_c = 0
    /\ ui_arg = NoArg
    /\ cmds = <<None, None>>

\* mutation of mark_offline: the record is dropped from the registry
MarkOfflineRemoves(sid) ==
    /\ clients' = [clients EXCEPT ![sid] = 0]
    /\ UNCHANGED <<heap, nextRid>>

\* AntennaManager.mark_offline, reached from _handle_state on state == "offline"
MarkOffline(sid) ==
    /\ IF Lookup(sid) # 0
       THEN heap' = [heap EXCEPT ![Lookup(sid)].status = "offline",
                                 ![Lookup(sid)].tracking = None]
       ELSE heap' = heap
    /\ UNCHANGED <<clients, nextRid>>

\* _handle_state, state == "offline": one locked section
HandleStateOffline ==
    /\ h_pc = "idle"
    /\ \E sid \in Stations : MarkOffline(sid)
    /\ UNCHANGED <<h_pc, h_msg, ui_pc, ui_c, ui_arg, cmds>>
    /\ UNCHANGED devVars

\* _handle_state, other states: existing = get_client(client_id), its own locked section
HandleStateLookup ==
    /\ h_pc = "idle"
    /\ \E sid \in Stations, st \in WireStates \ {"offline"}, tr \in Targets \cup {None} :
          /\ h_msg' = [sid |-> sid, state |-> st, tracking |-> tr]
          /\ h_pc' = IF Lookup(sid) = 0 THEN "hs_register" ELSE "hs_update"
    /\ UNCHANGED <<clients, heap, nextRid, ui_pc, ui_c, ui_arg, cmds>>
    /\ UNCHANGED devVars

\* AntennaManager.register: a fresh ClientState stored under the id
Register(sid, status) ==
    /\ nextRid <= MaxRecs
    /\ heap' = [heap EXCEPT ![nextRid] = NewClientState(nextRid, status)]
    /\ clients' = [clients EXCEPT ![sid] = nextRid]
    /\ nextRid' = nextRid + 1

HandleStateRegister ==
    /\ h_pc = "hs_register"
    /\ Register(h_msg.sid, h_msg.state)
    /\ h_pc' = "hs_update"
    /\ UNCHANGED <<h_msg, ui_pc, ui_c, ui_arg, cmds>>
    /\ UNCHANGED devVars

\* AntennaManager.update_state applied to record c
UpdateStateRec(c, st, tr) ==
    [c EXCEPT !.status = IF st # "" THEN st ELSE @,
              !.tracking = IF tr # None THEN tr
                           ELSE IF st # "tracking" THEN None ELSE @]

UpdateState(sid, st, tr) ==
    /\ IF Lookup(sid) # 0
       THEN heap' = [heap EXCEPT ![Lookup(sid)] = UpdateStateRec(@, st, tr)]
       ELSE heap' = heap
    /\ UNCHANGED <<clients, nextRid>>

HandleStateUpdate ==
    /\ h_pc = "hs_update"
    /\ UpdateState(h_msg.sid, h_msg.state, h_msg.tracking)
    /\ h_pc' = "idle"
    /\ h_msg' = NoMsg
    /\ UNCHANGED <<ui_pc, ui_c, ui_arg, cmds>>
    /\ UNCHANGED devVars

\* AntennaManager.update_location
UpdateLocation(sid, gps) ==
    /\ IF Lookup(sid) # 0
       THEN heap' = [heap EXCEPT ![Lookup(sid)].gps = gps]
       ELSE heap' = heap
    /\ UNCHANGED <<clients, nextRid>>

\* _handle_location: a payload without "gps" is dropped
HandleLocation ==
    /\ h_pc = "idle"
    /\ \E sid \in Stations, gps \in GpsFixes \cup {None} :
          IF gps # None THEN UpdateLocation(sid, gps)
          ELSE UNCHANGED <<clients, heap, nextRid>>
    /\ UNCHANGED <<h_pc, h_msg, ui_pc, ui_c, ui_arg, cmds>>
    /\ UNCHANGED devVars

\* AntennaManager.update_telemetry
UpdateTelemetry(sid, azel) ==
    /\ IF Lookup(sid) # 0
       THEN heap' = [heap EXCEPT ![Lookup(sid)].telem = azel]
       ELSE heap' = heap
    /\ UNCHANGED <<clients, nextRid>>

HandleTelemetry ==
    /\ h_pc = "idle"
    /\ \E sid \in Stations, azel \in AzEls : UpdateTelemetry(sid, azel)
    /\ UNCHANGED <<h_pc, h_msg, ui_pc, ui_c, ui_arg, cmds>>
    /\ UNCHANGED devVars

\* AntennaManager.update_full_status applied to record c; st = None: no "state"
\* object in the payload, tr = None: no "tracking" object
UpdateFullStatusRec(c, st, tr, azel) ==
    [c EXCEPT !.status = IF st # None THEN st ELSE @,
              !.tracking = IF tr # None THEN tr ELSE @,
              !.telem = IF tr # None THEN azel ELSE @]

UpdateFullStatus(sid, st, tr, azel) ==
    /\ IF Lookup(sid) # 0
       THEN heap' = [heap EXCEPT ![Lookup(sid)] = UpdateFullStatusRec(@, st, tr, azel)]
       ELSE heap' = heap
    /\ UNCHANGED <<clients, nextRid>>

HandleStatus ==
    /\ h_pc = "idle"
    /\ \E sid \in Stations, st \in {"ready", "tracking", None},
          tr \in Targets \cup {None}, azel \in AzEls :
          UpdateFullStatus(sid, st, tr, azel)
    /\ UNCHANGED <<h_pc, h_msg, ui_pc, ui_c, ui_arg, cmds>>
    /\ UNCHANGED devVars

\* push_track, first locked section: c = self._clients.get(client_id)
PushTrackLookup ==
    /\ ui_pc = "idle"
    /\ \E sid \in Stations, tg \in Targets :
          IF Lookup(sid) = 0
          THEN UNCHANGED <<ui_pc, ui_c, ui_arg>>
          ELSE /\ ui_c' = Lookup(sid)
               /\ ui_arg' = [sid |-> sid, target |-> tg]
               /\ ui_pc' = "pt_publish"
    /\ UNCHANGED <<clients, heap, nextRid, h_pc, h_msg, cmds>>
    /\ UNCHANGED devVars

\* push_track: self._mqtt_client.publish_track(...), outside the lock
PushTrackPublish ==
    /\ ui_pc = "pt_publish"
    /\ cmds' = <<"track", ui_arg.sid>>
    /\ ui_pc' = "pt_write"
    /\ UNCHANGED <<clients, heap, nextRid, h_pc, h_msg, ui_c, ui_arg>>
    /\ UNCHANGED devVars

\* push_track, second locked section: c.tracking = TrackingInfo(active=True, ...)
WriteTracking(c, tg) == [c EXCEPT !.tracking = tg]

PushTrackWrite ==
    /\ ui_pc = "pt_write"
    /\ heap' = [heap EXCEPT ![ui_c] = WriteTracking(@, ui_arg.target)]
    /\ ui_pc' = "idle"
    /\ ui_c' = 0
    /\ ui_arg' = NoArg
    /\ UNCHANGED <<clients, nextRid, h_pc, h_msg, cmds>>
    /\ UNCHANGED devVars

\* push_stop: lookup under the lock
PushStopLookup ==
    /\ ui_pc = "idle"
    /\ \E sid \in Stations :
          IF Lookup(sid) = 0
          THEN UNCHANGED <<ui_pc, ui_c, ui_arg>>
          ELSE /\ ui_c' = Lookup(sid)
               /\ ui_arg' = [sid |-> sid, target |-> None]
               /\ ui_pc' = "ps_publish"
    /\ UNCHANGED <<clients, heap, nextRid, h_pc, h_msg, cmds>>
    /\ UNCHANGED devVars

\* push_stop: publish_stop, no write to the record
PushStopPublish ==
    /\ ui_pc = "ps_publish"
    /\ cmds' = <<"stop", ui_arg.sid>>
    /\ ui_pc' = "idle"
    /\ ui_c' = 0
    /\ ui_arg' = NoArg
    /\ UNCHANGED <<clients, heap, nextRid, h_pc, h_msg>>
    /\ UNCHANGED devVars

\* request_status: publish only
RequestStatus ==
    /\ ui_pc = "idle"
    /\ \E sid \in Stations : cmds' = <<"status_request", sid>>
    /\ UNCHANGED <<clients, heap, nextRid, h_pc, h_msg, ui_pc, ui_c, ui_arg>>
    /\ UNCHANGED devVars

HubNext ==
    \/ HandleStateOffline
    \/ HandleStateLookup
    \/ HandleStateRegister
    \/ HandleStateUpdate
    \/ HandleLocation
    \/ HandleTelemetry
    \/ HandleStatus
    \/ PushTrackLookup
    \/ PushTrackPublish
    \/ PushTrackWrite
    \/ PushStopLookup
    \/ PushStopPublish
    \/ RequestStatus

(***************************************************************************)
(* DEVICE: StateManager, TrackingLoop, ClientMQTTClient, maintenance loop  *)
(***************************************************************************)
\* calls a direct caller of StateManager.transition makes
MaxCalls == 3
\* loop threads that may exist at once
MaxLoops == 2
\* the clock's first value and the horizon of the model
ClockStart == 1000
MaxClock == 1185
\* iterations of the GPS wait loops (range(120) in the source)
GpsWaitTries == 2
\* time between two reads of the clock by the maintenance loop (sleep(1) is a lower bound)
PollGaps == {60, 61}
\* time a tracking thread's sleep(update_interval) takes
LoopGaps == {60}
\* time left to the pass-set instant of a session that is under way
PassLeft == {60, 600}
\* time since the link went down, and since the watchdog first saw it down, when a
\* model of a disconnected daemon starts
DownAge == 200
SeenDownAge == 180
\* time since the last periodic location update when the model starts
LocAges == {0, 300}
\* pass-set instants of a track command, relative to its receipt
SetOffsets == {0, 60}
\* the clock when a session under way is replaced by a new track command
RestartClock == 1120

Loops == 1..MaxLoops

BOOT == "boot"
INITIALIZING == "initializing"
GPS_WAIT == "gps_wait"
GPS_ACQUIRED == "gps_acquired"
READY == "ready"
TRACKING == "tracking"
DEGRADED == "degraded"
ERROR == "error"
SHUTDOWN == "shutdown"
State == {BOOT, INITIALIZING, GPS_WAIT, GPS_ACQUIRED, READY, TRACKING, DEGRADED, ERROR, SHUTDOWN}

\* mutation of the table: TRACKING may degrade
TRANSITIONS_TrackingDegrades ==
    [s \in State |->
        CASE s = BOOT         -> {INITIALIZING, ERROR, SHUTDOWN}
          [] s = INITIALIZING -> {GPS_WAIT, READY, ERROR, SHUTDOWN}
          [] s = GPS_WAIT     -> {GPS_ACQUIRED, ERROR, SHUTDOWN}
          [] s = GPS_ACQUIRED -> {READY, ERROR, SHUTDOWN}
          [] s = READY        -> {TRACKING, GPS_WAIT, DEGRADED, ERROR, SHUTDOWN}
          [] s = TRACKING     -> {READY, DEGRADED, ERROR, SHUTDOWN}
          [] s = DEGRADED     -> {READY, ERROR, SHUTDOWN}
          [] s = ERROR        -> {READY, GPS_WAIT, INITIALIZING, SHUTDOWN}
          [] s = SHUTDOWN     -> {}]

\* mutation of the table: SHUTDOWN may be left for READY
TRANSITIONS_ShutdownRestarts ==
    [s \in State |->
        CASE s = BOOT         -> {INITIALIZING, ERROR, SHUTDOWN}
          [] s = INITIALIZING -> {GPS_WAIT, READY, ERROR, SHUTDOWN}
          [] s = GPS_WAIT     -> {GPS_ACQUIRED, ERROR, SHUTDOWN}
          [] s = GPS_ACQUIRED -> {READY, ERROR, SHUTDOWN}
          [] s = READY        -> {TRACKING, GPS_WAIT, DEGRADED, ERROR, SHUTDOWN}
          [] s = TRACKING     -> {READY, ERROR, SHUTDOWN}
          [] s = DEGRADED     -> {READY, ERROR, SHUTDOWN}
          [] s = ERROR        -> {READY, GPS_WAIT, INITIALIZING, SHUTDOWN}
          [] s = SHUTDOWN     -> {READY}]

\* states.py TRANSITIONS
TRANSITIONS ==
    [s \in State |->
        CASE s = BOOT         -> {INITIALIZING, ERROR, SHUTDOWN}
          [] s = INITIALIZING -> {GPS_WAIT, READY, ERROR, SHUTDOWN}
          [] s = GPS_WAIT     -> {GPS_ACQUIRED, ERROR, SHUTDOWN}
          [] s = GPS_ACQUIRED -> {READY, ERROR, SHUTDOWN}
          [] s = READY        -> {TRACKING, GPS_WAIT, DEGRADED, ERROR, SHUTDOWN}
          [] s = TRACKING     -> {READY, ERROR, SHUTDOWN}
          [] s = DEGRADED     -> {READY, ERROR, SHUTDOWN}
          [] s = ERROR        -> {READY, GPS_WAIT, INITIALIZING, SHUTDOWN}
          [] s = SHUTDOWN     -> {}]

LOCATION_INTERVAL == 300
DISCONNECT_TIMEOUT == 120
RECONNECT_INTERVAL == 30
GPS_RECONNECT_INTERVAL == 30

\* mutation of the rejection test: every request is allowed
AllowedAll(from, to) == TRUE

\* transition(): "new_state not in allowed" is the rejection
Allowed(from, to) == to \in TRANSITIONS[from]

\* mutation of transition(): a prior error detail is kept
TransitionKeepsError(th, new, detail) ==
    IF Allowed(sm_state, new)
    THEN /\ sm_state' = new
         /\ sm_error' = IF new = ERROR THEN detail ELSE sm_error
         /\ sm_since' = clock
         /\ cb_pending' = cb_pending \cup {th}
    ELSE UNCHANGED smVars

\* StateManager.transition called by thread th: the locked section; an accepted
\* transition leaves th in the fan-out over the registered observers
Transition(th, new, detail) ==
    IF Allowed(sm_state, new)
    THEN /\ sm_state' = new
         /\ sm_error' = IF new = ERROR THEN detail ELSE ""
         /\ sm_since' = clock
         /\ cb_pending' = cb_pending \cup {th}
    ELSE UNCHANGED smVars

\* ClientMQTTClient._publish_state_payload
StatePayload(override) ==
    [state |-> IF override # None THEN override ELSE sm_state, tracking |-> trk_active]

\* _on_transition_callbacks, in registration order
Observers ==
    (IF obs_raises THEN <<"raises">> ELSE <<>>) \o (IF obs_reg THEN <<"publish_state">> ELSE <<>>)

\* mutation of the fan-out: no try/except, the loop ends at the first observer that raises
InvokedUntilRaise(obs) ==
    {obs[i] : i \in {j \in 1..Len(obs) : \A k \in 1..(j - 1) : obs[k] # "raises"}}

\* "for cb in ...: try: cb(...) except Exception: pass": the observers that get called
Invoked(obs) == {obs[i] : i \in 1..Len(obs)}

\* the for-loop over _on_transition_callbacks: lambda state, err: mqtt.publish_state()
FanOut(th) ==
    /\ th \in cb_pending
    /\ cb_pending' = cb_pending \ {th}
    /\ pub_state' = IF "publish_state" \in Invoked(Observers) THEN StatePayload(None) ELSE pub_state
    /\ UNCHANGED <<sm_state, sm_error, sm_since, pub_telem>>

\* the process is gone once main() has left its finally block
Exited == m_pc = "exited"
\* sigterm_handler runs on the main thread, which resumes when it returns
CanRun(th) ==
    /\ ~Exited
    /\ th \notin cb_pending
    /\ th = "main" => sig_pc # "set"

\* a loop thread's name among the threads
LoopName(t) == "loop" \o ToString(t)

Threads == {"main", "net", "sig"} \cup {LoopName(t) : t \in Loops}

\* variables no loop thread, no network callback and no main-thread step writes
LoopFrame == UNCHANGED <<hubVars, apiVars, clock, cfg_gps, obs_reg, linkVars, stop_event, sig_pc,
                         gpsVars, netVars, mainVars>>
NetFrame  == UNCHANGED <<hubVars, apiVars, clock, cfg_gps, obs_reg, stop_event, sig_pc, mainVars>>

Callbacks ==
    /\ \E th \in Threads : ~Exited /\ FanOut(th)
    /\ UNCHANGED <<hubVars, apiVars, clock, cfg_gps, obs_reg, linkVars, stop_event, sig_pc,
                   gpsVars, trkVars, loopVars, netVars, mainVars>>

\* a time.sleep returns and the clock is read next: it has advanced by some gap
Sleep(gap) ==
    /\ clock + gap <= MaxClock
    /\ clock' = clock + gap

(* ------------------------- TrackingLoop ------------------------------- *)

\* threading.Thread.is_alive
IsAlive(t) == t # 0 /\ l_pc[t] # "dead"

\* mutation of loop(): the pass-end test is missing
LoopCheckNoPassEnd(t, prop) ==
    /\ l_pc[t] = "check"
    /\ IF ~trk_running
       THEN /\ l_pc' = [l_pc EXCEPT ![t] = "exit"]
            /\ UNCHANGED trk_az
       ELSE IF prop
       THEN /\ l_pc' = [l_pc EXCEPT ![t] = "callbacks"]
            /\ trk_az' = t
       ELSE /\ l_pc' = [l_pc EXCEPT ![t] = "sleep"]
            /\ UNCHANGED trk_az

\* loop(): "while self._running", the pass-end test, propagation and the locked
\* store of az/el; prop = FALSE: satellite_ecef_at returned None
LoopCheck(t, prop) ==
    /\ l_pc[t] = "check"
    /\ IF ~trk_running
       THEN /\ l_pc' = [l_pc EXCEPT ![t] = "exit"]
            /\ UNCHANGED trk_az
       ELSE IF clock >= l_set[t]
       THEN /\ l_pc' = [l_pc EXCEPT ![t] = "exit_natural"]
            /\ UNCHANGED trk_az
       ELSE IF prop
       THEN /\ l_pc' = [l_pc EXCEPT ![t] = "callbacks"]
            /\ trk_az' = t
       ELSE /\ l_pc' = [l_pc EXCEPT ![t] = "sleep"]
            /\ UNCHANGED trk_az

LoopTick ==
    \E t \in Loops, prop \in BOOLEAN :
        /\ CanRun(LoopName(t))
        /\ LoopCheck(t, prop)
        /\ UNCHANGED <<l_set, l_cap, pubVars, trk_running, trk_active, trk_thread, trk_sat, smVars>>
        /\ LoopFrame

\* _on_telemetry_callbacks, in registration order
TelemetryCallbacks ==
    (IF tel_raises THEN <<"raises">> ELSE <<>>)
        \o (IF obs_reg THEN <<"publish_telemetry">> ELSE <<>>)

\* mutation of loop(): no try/except around cb(az, el): the exception ends the thread
LoopCallbacksUnguarded(t) ==
    /\ l_pc[t] = "callbacks"
    /\ l_pc' = [l_pc EXCEPT ![t] = IF tel_raises THEN "dead" ELSE "sleep"]
    /\ pub_telem' = IF "publish_telemetry" \in InvokedUntilRaise(TelemetryCallbacks)
                     THEN t ELSE pub_telem

\* loop(): "for cb in self._on_telemetry_callbacks: try: cb(az, el) except Exception:
\* pass", the publishing callback being mqtt.publish_telemetry(az, el)
LoopCallbacks(t) ==
    /\ l_pc[t] = "callbacks"
    /\ l_pc' = [l_pc EXCEPT ![t] = "sleep"]
    /\ pub_telem' = IF "publish_telemetry" \in Invoked(TelemetryCallbacks) THEN t ELSE pub_telem

LoopTelemetry ==
    \E t \in Loops :
        /\ CanRun(LoopName(t))
        /\ LoopCallbacks(t)
        /\ UNCHANGED <<l_set, l_cap, pub_state, trkVars, smVars>>
        /\ LoopFrame

\* loop(): time.sleep(update_interval) returns: time has passed
LoopSleep ==
    \E t \in Loops, gap \in LoopGaps :
        /\ CanRun(LoopName(t))
        /\ l_pc[t] = "sleep"
        /\ Sleep(gap)
        /\ l_pc' = [l_pc EXCEPT ![t] = "check"]
        /\ UNCHANGED <<l_set, l_cap, pubVars, trkVars, smVars>>
        /\ UNCHANGED <<hubVars, apiVars, cfg_gps, obs_reg, linkVars, stop_event, sig_pc,
                       gpsVars, netVars, mainVars>>

\* loop(): after the while: self.active = False; self._running = False
LoopAfter(t) ==
    /\ l_pc[t] \in {"exit", "exit_natural"}
    /\ trk_active' = FALSE
    /\ trk_running' = FALSE
    /\ l_pc' = [l_pc EXCEPT ![t] = IF l_pc[t] = "exit_natural" THEN "end" ELSE "dead"]

LoopExit ==
    \E t \in Loops :
        /\ CanRun(LoopName(t))
        /\ LoopAfter(t)
        /\ UNCHANGED <<l_set, l_cap, pubVars, trk_thread, trk_sat, trk_az, smVars>>
        /\ LoopFrame

\* loop(): if self._state_mgr and natural_end: self._state_mgr.transition(State.READY)
LoopNaturalEnd(t) ==
    /\ l_pc[t] = "end"
    /\ Transition(LoopName(t), READY, "")
    /\ l_pc' = [l_pc EXCEPT ![t] = "dead"]

LoopEnd ==
    \E t \in Loops :
        /\ CanRun(LoopName(t))
        /\ LoopNaturalEnd(t)
        /\ UNCHANGED <<l_set, l_cap, pubVars, trkVars>>
        /\ LoopFrame

\* stop(): self._running = False
StopFlag == trk_running' = FALSE

\* mutation of stop(): join() without a timeout
StopJoinNoTimeout(timedOut) ==
    /\ ~IsAlive(trk_thread)
    /\ trk_thread' = 0
    /\ trk_active' = FALSE

\* mutation of stop(): the active flag is not cleared
StopJoinKeepsActive(timedOut) ==
    /\ IsAlive(trk_thread) => timedOut
    /\ trk_thread' = 0
    /\ UNCHANGED trk_active

\* stop(): join(timeout=2) has returned (the thread ended, or timedOut and the
\* timeout expired); then self._thread = None; self.active = False
StopJoin(timedOut) ==
    /\ IsAlive(trk_thread) => timedOut
    /\ trk_thread' = 0
    /\ trk_active' = FALSE

\* start() after its stop(): omm_to_satrec, the field stores, active and _running
\* set, the loop thread created and started in slot t with pass-set time st
StartSession(t, sat, st) ==
    /\ t <= l_cap
    /\ l_pc[t] = "dead"
    /\ trk_sat' = sat
    /\ trk_active' = TRUE
    /\ trk_running' = TRUE
    /\ trk_thread' = t
    /\ l_pc' = [l_pc EXCEPT ![t] = "check"]
    /\ l_set' = [l_set EXCEPT ![t] = st]
    /\ UNCHANGED l_cap

(* ------------------------- GPS reader --------------------------------- *)

\* PigpioGPS.read(): None when disconnected or when the serial read fails (which
\* marks the reader disconnected); otherwise the data, whose fix flag is set by
\* the first GGA sentence with a fix and then stays set
GpsReadResults ==
    IF gps_conn THEN {"fail", "fix"} \cup (IF gps_fix THEN {} ELSE {"nofix"})
    ELSE {"none"}

GpsRead(res) ==
    /\ res \in GpsReadResults
    /\ gps_conn' = (gps_conn /\ res # "fail")
    /\ gps_fix' = (gps_fix \/ res = "fix")

\* gps_data and gps_data.get("fix")
HasFix(res) == res = "fix"

(* ------------------------- ClientMQTTClient --------------------------- *)

NoTrack == [valid |-> TRUE, sat |-> None, set_time |-> 0, ok |-> TRUE]

\* _on_connect (rc = 0): connected, state published, location re-published
OnConnect ==
    /\ CanRun("net")
    /\ n_pc = "idle"
    /\ obs_reg
    /\ ~mq_connected
    /\ mq_connected' = TRUE
    /\ link_down_at' = 0
    /\ pub_state' = StatePayload(None)
    /\ \E res \in GpsReadResults : GpsRead(res)
    /\ UNCHANGED <<pub_telem, smVars, trkVars, loopVars, netVars>>
    /\ NetFrame

\* _on_disconnect
OnDisconnect ==
    /\ CanRun("net")
    /\ n_pc = "idle"
    /\ mq_connected
    /\ mq_connected' = FALSE
    /\ link_down_at' = clock
    /\ UNCHANGED <<pubVars, gpsVars, smVars, trkVars, loopVars, netVars>>
    /\ NetFrame

\* _on_message, topic sdr/cmd/{id}/track: valid = FALSE is a payload without omm
\* or set_time, ok = FALSE an element record on which omm_to_satrec raises
OnTrackMessage ==
    /\ CanRun("net")
    /\ n_pc = "idle"
    /\ mq_connected
    /\ \E valid \in BOOLEAN, sat \in Targets, off \in SetOffsets, ok \in BOOLEAN :
          n_msg' = [valid |-> valid, sat |-> sat, set_time |-> clock + off, ok |-> ok]
    /\ n_pc' = "track_check"
    /\ UNCHANGED <<linkVars, pubVars, gpsVars, smVars, trkVars, loopVars>>
    /\ NetFrame

\* mutation of the guards: the fix is not looked at
TrackAcceptedNoFix(valid, res) == valid

\* the guards of _handle_track: omm and set_time present, the reader has a fix
TrackAccepted(valid, res) == valid /\ HasFix(res)

\* _handle_track up to the fix test
HandleTrackCheck ==
    /\ CanRun("net")
    /\ n_pc = "track_check"
    /\ \E res \in GpsReadResults :
          /\ IF n_msg.valid THEN GpsRead(res) ELSE UNCHANGED gpsVars
          /\ IF TrackAccepted(n_msg.valid, res)
             THEN n_pc' = "track_transition"
             ELSE n_pc' = "track_rejected"
    /\ UNCHANGED <<linkVars, n_msg, pubVars, smVars, trkVars, loopVars>>
    /\ NetFrame

\* _handle_track: the log line and the "return" of a rejected command
HandleTrackReturn ==
    /\ CanRun("net")
    /\ n_pc = "track_rejected"
    /\ n_pc' = "idle"
    /\ n_msg' = NoTrack
    /\ UNCHANGED <<linkVars, pubVars, gpsVars, smVars, trkVars, loopVars>>
    /\ NetFrame

\* _handle_track: self._state_mgr.transition(State.TRACKING)
HandleTrackTransition ==
    /\ CanRun("net")
    /\ n_pc = "track_transition"
    /\ Transition("net", TRACKING, "")
    /\ n_pc' = "start_stop"
    /\ UNCHANGED <<linkVars, n_msg, pubVars, gpsVars, trkVars, loopVars>>
    /\ NetFrame

\* _on_message, topic sdr/cmd/{id}/stop: _handle_stop begins with tracker.stop()
HandleStop ==
    /\ CanRun("net")
    /\ n_pc = "idle"
    /\ mq_connected
    /\ StopFlag
    /\ n_pc' = "stop_join"
    /\ UNCHANGED <<linkVars, n_msg, pubVars, gpsVars, smVars, trk_active,
                   trk_thread, trk_sat, trk_az, loopVars>>
    /\ NetFrame

\* tracker.start(): self.stop()
StartStopFlag ==
    /\ CanRun("net")
    /\ n_pc = "start_stop"
    /\ StopFlag
    /\ n_pc' = "start_join"
    /\ UNCHANGED <<linkVars, n_msg, pubVars, gpsVars, smVars, trk_active,
                   trk_thread, trk_sat, trk_az, loopVars>>
    /\ NetFrame

\* the join inside the stop() of _handle_stop or of start()
NetStopJoin ==
    /\ CanRun("net")
    /\ n_pc \in {"stop_join", "start_join"}
    /\ \E timedOut \in BOOLEAN : StopJoin(timedOut)
    /\ n_pc' = IF n_pc = "stop_join" THEN "stop_transition" ELSE "start_session"
    /\ UNCHANGED <<linkVars, n_msg, pubVars, gpsVars, smVars, trk_running,
                   trk_sat, trk_az, loopVars>>
    /\ NetFrame

\* start() after stop(): the session starts; on a bad element record omm_to_satrec
\* raises out of on_message, which paho logs and, unless suppress_exceptions is
\* set, re-raises in its loop thread
StartRun ==
    /\ CanRun("net")
    /\ n_pc = "start_session"
    /\ IF n_msg.ok
       THEN /\ \E t \in Loops : StartSession(t, n_msg.sat, n_msg.set_time)
            /\ UNCHANGED trk_az
            /\ n_pc' = "idle"
       ELSE /\ UNCHANGED <<trkVars, loopVars>>
            /\ n_pc' \in {"idle", "crashed"}
    /\ n_msg' = NoTrack
    /\ UNCHANGED <<linkVars, pubVars, gpsVars, smVars>>
    /\ NetFrame

\* _handle_stop ends: self._state_mgr.transition(State.READY)
HandleStopTransition ==
    /\ CanRun("net")
    /\ n_pc = "stop_transition"
    /\ Transition("net", READY, "")
    /\ n_pc' = "idle"
    /\ UNCHANGED <<linkVars, n_msg, pubVars, gpsVars, trkVars, loopVars>>
    /\ NetFrame

(* ------------------------- main.py: signal handler -------------------- *)

\* sigterm_handler: state_mgr.transition(State.SHUTDOWN)
SignalTransition ==
    /\ ~Exited
    /\ sig_pc = "idle"
    /\ Transition("sig", SHUTDOWN, "")
    /\ sig_pc' = "set"
    /\ UNCHANGED <<hubVars, apiVars, clock, cfg_gps, obs_reg, linkVars, stop_event,
                   pubVars, gpsVars, trkVars, loopVars, netVars, mainVars>>

\* sigterm_handler: stop_event.set()
SignalSet ==
    /\ CanRun("sig")
    /\ sig_pc = "set"
    /\ stop_event' = TRUE
    /\ sig_pc' = "done"
    /\ UNCHANGED <<hubVars, apiVars, clock, cfg_gps, obs_reg, linkVars,
                   smVars, pubVars, gpsVars, trkVars, loopVars, netVars, mainVars>>

(* ------------------------- main.py: daemon_startup -------------------- *)

\* variables the main thread writes in no step before mqtt.stop()
MainFrame == UNCHANGED <<hubVars, apiVars, cfg_gps, linkVars, stop_event, sig_pc, pub_telem,
                         trkVars, loopVars, netVars>>

\* state_mgr.transition(State.INITIALIZING)
MainBoot ==
    /\ CanRun("main")
    /\ m_pc = "boot"
    /\ Transition("main", INITIALIZING, "")
    /\ m_pc' = "init"
    /\ UNCHANGED <<clock, obs_reg, pub_state, gpsVars, m_now, m_cur, m_ds, m_lra, m_lgr, m_llt, m_tries>>
    /\ MainFrame

\* observers wired, mqtt.start(), then READY without GPS hardware, else GPS_WAIT
MainInit ==
    /\ CanRun("main")
    /\ m_pc = "init"
    /\ obs_reg' = TRUE
    /\ IF cfg_gps = "none"
       THEN Transition("main", READY, "") /\ m_pc' = "signal_ready" /\ UNCHANGED m_tries
       ELSE Transition("main", GPS_WAIT, "") /\ m_pc' = "gps_wait" /\ m_tries' = GpsWaitTries
    /\ UNCHANGED <<clock, pub_state, gpsVars, m_now, m_cur, m_ds, m_lra, m_lgr, m_llt>>
    /\ MainFrame

\* one iteration of "for _ in range(120)" waiting for the first fix
MainGpsWait ==
    /\ CanRun("main")
    /\ m_pc = "gps_wait"
    /\ IF m_tries = 0
       THEN /\ m_pc' = "signal_ready"
            /\ UNCHANGED <<clock, smVars, gpsVars, m_tries>>
       ELSE IF stop_event
       THEN /\ m_pc' = "mqtt_stop"
            /\ UNCHANGED <<clock, smVars, gpsVars, m_tries>>
       ELSE \E res \in GpsReadResults :
              /\ GpsRead(res)
              /\ IF HasFix(res)
                 THEN /\ Transition("main", GPS_ACQUIRED, "")
                      /\ m_pc' = "signal_ready"
                      /\ UNCHANGED <<clock, m_tries>>
                 ELSE /\ \E gap \in PollGaps : Sleep(gap)
                      /\ m_tries' = m_tries - 1
                      /\ UNCHANGED <<smVars, m_pc>>
    /\ UNCHANGED <<obs_reg, pub_state, m_now, m_cur, m_ds, m_lra, m_lgr, m_llt>>
    /\ MainFrame

\* "if state_mgr.state != State.READY: state_mgr.transition(State.READY)"
MainSignalReady ==
    /\ CanRun("main")
    /\ m_pc = "signal_ready"
    /\ IF sm_state # READY THEN Transition("main", READY, "") ELSE UNCHANGED smVars
    /\ m_pc' = "poll"
    /\ m_llt' = clock
    /\ UNCHANGED <<clock, obs_reg, pub_state, gpsVars, m_now, m_cur, m_ds, m_lra, m_lgr, m_tries>>
    /\ MainFrame

\* maintenance loop head: stop_event test, sleep(1), now and cur_state read
MainPoll ==
    /\ CanRun("main")
    /\ m_pc = "poll"
    /\ IF stop_event
       THEN /\ m_pc' = "mqtt_stop"
            /\ UNCHANGED <<clock, m_now, m_cur>>
       ELSE /\ \E gap \in PollGaps : Sleep(gap)
            /\ m_now' = clock'
            /\ m_cur' = sm_state
            /\ m_pc' = "watchdog"
    /\ UNCHANGED <<obs_reg, pub_state, smVars, gpsVars, m_ds, m_lra, m_lgr, m_llt, m_tries>>
    /\ MainFrame

\* "if disconnect_start == 0.0: disconnect_start = now" and "elapsed = now - disconnect_start"
DisconnectStart == IF m_ds = 0 THEN m_now ELSE m_ds
Elapsed == m_now - DisconnectStart

\* mutation of the escalation test: the timeout itself already escalates
DegradeDueAtTimeout(cur, elapsed) == cur = READY /\ elapsed >= DISCONNECT_TIMEOUT

\* "cur_state == State.READY and elapsed > DISCONNECT_TIMEOUT"
DegradeDue(cur, elapsed) == cur = READY /\ elapsed > DISCONNECT_TIMEOUT

\* mutation of the backoff test: an attempt as soon as the interval has passed
ReconnectDueAtInterval == m_now - m_lra >= RECONNECT_INTERVAL

\* "now - last_reconnect_attempt > RECONNECT_INTERVAL"
ReconnectDue == m_now - m_lra > RECONNECT_INTERVAL

\* "if disconnect_start > 0.0" of the connected branch
SawDisconnect == m_ds > 0

\* the MQTT connectivity watchdog; force_reconnect() changes no field of the device
Watchdog ==
    IF ~mq_connected
    THEN IF DegradeDue(m_cur, Elapsed)
         THEN /\ Transition("main", DEGRADED, "")
              /\ m_ds' = DisconnectStart
              /\ UNCHANGED m_lra
         ELSE IF m_cur = TRACKING
         THEN /\ m_ds' = m_now
              /\ m_lra' = IF ReconnectDue THEN m_now ELSE m_lra
              /\ UNCHANGED smVars
         ELSE IF m_cur = DEGRADED /\ ReconnectDue
         THEN /\ m_lra' = m_now
              /\ m_ds' = DisconnectStart
              /\ UNCHANGED smVars
         ELSE /\ m_ds' = DisconnectStart
              /\ UNCHANGED <<m_lra, smVars>>
    ELSE IF SawDisconnect
         THEN /\ m_ds' = 0
              /\ m_lra' = 0
              /\ IF m_cur = DEGRADED THEN Transition("main", READY, "") ELSE UNCHANGED smVars
         ELSE UNCHANGED <<m_ds, m_lra, smVars>>

MainWatchdog ==
    /\ CanRun("main")
    /\ m_pc = "watchdog"
    /\ Watchdog
    /\ m_pc' = "gps_recovery"
    /\ UNCHANGED <<clock, obs_reg, pub_state, gpsVars, m_now, m_cur, m_lgr, m_llt, m_tries>>
    /\ MainFrame

\* GPS recovery: a due reconnect attempt; on success GPS_WAIT is requested and the
\* wait for a fix begins (PigpioGPS.reconnect resets the data)
MainGpsRecovery ==
    /\ CanRun("main")
    /\ m_pc = "gps_recovery"
    /\ IF cfg_gps # "none" /\ ~gps_conn /\ m_now - m_lgr > GPS_RECONNECT_INTERVAL
       THEN /\ m_lgr' = m_now
            /\ \E success \in BOOLEAN :
                 IF success
                 THEN /\ gps_conn' = TRUE
                      /\ gps_fix' = FALSE
                      /\ Transition("main", GPS_WAIT, "")
                      /\ m_pc' = "recovery_wait"
                      /\ m_tries' = GpsWaitTries
                 ELSE /\ m_pc' = "location"
                      /\ UNCHANGED <<gpsVars, smVars, m_tries>>
       ELSE /\ m_pc' = "location"
            /\ UNCHANGED <<gpsVars, smVars, m_lgr, m_llt, m_tries>>
    /\ UNCHANGED <<clock, obs_reg, pub_state, m_now, m_cur, m_ds, m_lra, m_llt>>
    /\ MainFrame

\* one iteration of the recovery "for _ in range(120)"; its else clause requests READY
MainRecoveryWait ==
    /\ CanRun("main")
    /\ m_pc = "recovery_wait"
    /\ IF m_tries = 0
       THEN /\ Transition("main", READY, "")
            /\ m_pc' = "location"
            /\ UNCHANGED <<clock, gpsVars, m_tries>>
       ELSE IF stop_event
       THEN /\ m_pc' = "location"
            /\ UNCHANGED <<clock, smVars, gpsVars, m_tries>>
       ELSE \E res \in GpsReadResults :
              /\ GpsRead(res)
              /\ IF HasFix(res)
                 THEN /\ Transition("main", GPS_ACQUIRED, "")
                      /\ m_pc' = "recovery_publish"
                      /\ UNCHANGED <<clock, m_tries>>
                 ELSE /\ \E gap \in PollGaps : Sleep(gap)
                      /\ m_tries' = m_tries - 1
                      /\ UNCHANGED <<smVars, m_pc>>
    /\ UNCHANGED <<obs_reg, pub_state, m_now, m_cur, m_ds, m_lra, m_lgr, m_llt>>
    /\ MainFrame

\* recovery: mqtt.publish_location(gps_data), which may raise into the handler,
\* then state_mgr.transition(State.READY)
MainRecoveryPublish ==
    /\ CanRun("main")
    /\ m_pc = "recovery_publish"
    /\ \E raises \in BOOLEAN :
          IF raises
          THEN m_pc' = "except" /\ UNCHANGED smVars
          ELSE m_pc' = "location" /\ Transition("main", READY, "")
    /\ UNCHANGED <<clock, obs_reg, pub_state, gpsVars, m_now, m_cur, m_ds, m_lra, m_lgr, m_llt, m_tries>>
    /\ MainFrame

\* "now - last_location_time > LOCATION_INTERVAL"
LocationDue == m_now - m_llt > LOCATION_INTERVAL

\* periodic location update: the read, publish_location on a fix (which may raise
\* into the handler); the iteration ends and now, cur_state die
MainLocation ==
    /\ CanRun("main")
    /\ m_pc = "location"
    /\ IF LocationDue
       THEN \E res \in GpsReadResults, raises \in BOOLEAN :
              /\ GpsRead(res)
              /\ IF HasFix(res) /\ raises
                 THEN m_pc' = "except" /\ UNCHANGED m_llt
                 ELSE m_pc' = "poll" /\ m_llt' = m_now
       ELSE /\ m_pc' = "poll"
            /\ UNCHANGED <<gpsVars, m_llt>>
    /\ m_now' = 0
    /\ m_cur' = None
    /\ UNCHANGED <<clock, obs_reg, pub_state, smVars, m_ds, m_lra, m_lgr, m_tries>>
    /\ MainFrame

\* except Exception: "if state_mgr.state not in (State.DEGRADED, State.SHUTDOWN)"
MainExcept ==
    /\ CanRun("main")
    /\ m_pc = "except"
    /\ m_pc' = IF sm_state \notin {DEGRADED, SHUTDOWN} THEN "except_transition" ELSE "poll"
    /\ m_now' = 0
    /\ m_cur' = None
    /\ UNCHANGED <<clock, obs_reg, pub_state, smVars, gpsVars, m_ds, m_lra, m_lgr, m_llt, m_tries>>
    /\ MainFrame

\* except Exception: state_mgr.transition(State.DEGRADED)
MainExceptTransition ==
    /\ CanRun("main")
    /\ m_pc = "except_transition"
    /\ Transition("main", DEGRADED, "")
    /\ m_pc' = "poll"
    /\ UNCHANGED <<clock, obs_reg, pub_state, gpsVars, m_now, m_cur, m_ds, m_lra, m_lgr, m_llt, m_tries>>
    /\ MainFrame

\* mqtt.stop(): the "shutdown" payload is published, loop_stop() joins the network thread
MainMqttStop ==
    /\ CanRun("main")
    /\ m_pc = "mqtt_stop"
    /\ n_pc \in {"idle", "crashed"}
    /\ "net" \notin cb_pending
    /\ pub_state' = StatePayload(SHUTDOWN)
    /\ n_pc' = "stopped"
    /\ mq_connected' = FALSE
    /\ m_pc' = "finally"
    /\ UNCHANGED <<hubVars, apiVars, clock, cfg_gps, obs_reg, link_down_at, stop_event, sig_pc, pub_telem,
                   smVars, gpsVars, trkVars, loopVars, n_msg, m_now, m_cur, m_ds, m_lra,
                   m_lgr, m_llt, m_tries>>

\* main(): finally: tracker.stop()
MainFinallyStop ==
    /\ CanRun("main")
    /\ m_pc = "finally"
    /\ StopFlag
    /\ m_pc' = "finally_join"
    /\ UNCHANGED <<hubVars, apiVars, clock, cfg_gps, obs_reg, linkVars, stop_event, sig_pc, pubVars,
                   smVars, gpsVars, trk_active, trk_thread, trk_sat, trk_az, loopVars,
                   netVars, m_now, m_cur, m_ds, m_lra, m_lgr, m_llt, m_tries>>

\* main(): finally: the join of tracker.stop(), gps.close(); the process ends
MainFinallyJoin ==
    /\ CanRun("main")
    /\ m_pc = "finally_join"
    /\ \E timedOut \in BOOLEAN : StopJoin(timedOut)
    /\ gps_conn' = FALSE
    /\ m_pc' = "exited"
    /\ UNCHANGED <<hubVars, apiVars, clock, cfg_gps, obs_reg, linkVars, stop_event, sig_pc, pubVars,
                   smVars, gps_fix, trk_running, trk_sat, trk_az, loopVars,
                   netVars, m_now, m_cur, m_ds, m_lra, m_lgr, m_llt, m_tries>>

\* threads that call AntennaManager methods: paho's network thread, the UI thread
AmThreads == {"net", "ui"}
NoCall == [pc |-> "idle", op |-> None, sid |-> None, i |-> 0]

\* no AntennaManager method is running and no callback is registered
AmIdle ==
    /\ am_lock = None
    /\ am_th = [th \in AmThreads |-> NoCall]
    /\ am_cbs = <<>>

\* no pass prediction call was made
NoArgs == [fn |-> None]
NoReturn == [returned |-> FALSE]
PpIdle ==
    /\ pp_in = NoArgs
    /\ pp_out = NoReturn

\* catalog ids (NORAD_CAT_ID)
CatalogIds == {25544, 33591}

\* no get_satrec call yet
NoGet == [calls |-> 0, id |-> 0, omm |-> 0, built |-> FALSE, raised |-> FALSE, state |-> 0]

\* _satrec_array and its two companions, each named by the catalog of states it
\* was built from; the empty catalog stands for None
NoArray == [n \in CatalogIds |-> 0]
Arrays(built) == [array |-> built, ids |-> built, types |-> built]

\* no thread is inside the propagator
NoReader == [pc |-> "idle", op |-> "none", list |-> NoArray, id |-> 0, array |-> NoArray,
             ids |-> NoArray, types |-> NoArray, state |-> 0, error |-> "none"]
NoRebuild == [pc |-> "idle", new |-> NoArray]
\* a state payload no thread has built
NoPayload == [state |-> None, tracking |-> FALSE]
RaceIdle ==
    /\ satrec_array = Arrays(NoArray)
    /\ rd_th = NoReader
    /\ rb_th = NoRebuild
    /\ pb_built = [th \in Threads |-> NoPayload]

\* nothing loaded, nothing cached
CacheIdle ==
    /\ RaceIdle
    /\ satellite_data = [n \in CatalogIds |-> 0]
    /\ satrec_cache = [n \in CatalogIds |-> 0]
    /\ satrec_builds = [n \in CatalogIds |-> 0]
    /\ satrec_ret = NoGet

\* the broker holds nothing for the hub
NoBus == [retained |-> {}, pending |-> {}]

DaemonInit ==
    /\ clock = ClockStart
    /\ cfg_gps \in {"pigpio", "none"}
    /\ sm_state = BOOT
    /\ sm_error = ""
    /\ sm_since = ClockStart
    /\ obs_reg = FALSE
    /\ cb_pending = {}
    /\ pub_state = [state |-> None, tracking |-> FALSE]
    /\ pub_telem = 0
    /\ mq_connected = FALSE
    /\ link_down_at = ClockStart
    /\ gps_conn = (cfg_gps = "pigpio")
    /\ gps_fix = FALSE
    /\ stop_event = FALSE
    /\ trk_running = FALSE
    /\ trk_active = FALSE
    /\ trk_thread = 0
    /\ trk_sat = None
    /\ trk_az = 0
    /\ l_pc = [t \in Loops |-> "dead"]
    /\ l_set = [t \in Loops |-> 0]
    /\ l_cap = MaxLoops
    /\ n_pc = "idle"
    /\ n_msg = NoTrack
    /\ m_pc = "boot"
    /\ m_now = 0
    /\ m_cur = None
    /\ m_ds = 0
    /\ m_lra = 0
    /\ m_lgr = 0
    /\ m_llt = 0
    /\ m_tries = 0
    /\ sig_pc = "idle"
    /\ sm_req = None
    /\ sm_det = ""
    /\ sm_ret = FALSE
    /\ sm_calls = 0
    /\ obs_raises = FALSE
    /\ tel_raises = FALSE

DevInit == DaemonInit /\ bus = NoBus /\ AmIdle /\ PpIdle /\ CacheIdle

DevNext ==
    \/ Callbacks
    \/ LoopTick
    \/ LoopTelemetry
    \/ LoopSleep
    \/ LoopExit
    \/ LoopEnd
    \/ OnConnect
    \/ OnDisconnect
    \/ OnTrackMessage
    \/ HandleTrackCheck
    \/ HandleTrackReturn
    \/ HandleTrackTransition
    \/ HandleStop
    \/ StartStopFlag
    \/ NetStopJoin
    \/ StartRun
    \/ HandleStopTransition
    \/ SignalTransition
    \/ SignalSet
    \/ MainBoot
    \/ MainInit
    \/ MainGpsWait
    \/ MainSignalReady
    \/ MainPoll
    \/ MainWatchdog
    \/ MainGpsRecovery
    \/ MainRecoveryWait
    \/ MainRecoveryPublish
    \/ MainLocation
    \/ MainExcept
    \/ MainExceptTransition
    \/ MainMqttStop
    \/ MainFinallyStop
    \/ MainFinallyJoin

vars == <<hubVars, devVars>>

\* the hub alone: the device stays as constructed
HubOnlyInit == HubInit /\ DevInit /\ cfg_gps = "pigpio"
HubSpec == HubOnlyInit /\ [][HubNext]_vars

\* length of one silence of a station on the bus, s
SilenceGap == 130

\* mutation of the hub: a staleness timer marks the silent stations offline
HubTimePassesExpires ==
    /\ Sleep(SilenceGap)
    /\ heap' = [r \in 1..MaxRecs |->
                  IF heap[r].rid # 0 THEN [heap[r] EXCEPT !.status = "offline"]
                  ELSE heap[r]]
    /\ UNCHANGED <<clients, nextRid, h_pc, h_msg, ui_pc, ui_c, ui_arg, cmds>>
    /\ UNCHANGED <<apiVars, cfg_gps, obs_reg, linkVars, stop_event, sig_pc,
                   smVars, pubVars, gpsVars, trkVars, loopVars, netVars, mainVars>>

\* the hub's network loop waits for the next message: time passes and no
\* handler runs (the hub reads no clock and arms no timer)
HubTimePasses ==
    /\ Sleep(SilenceGap)
    /\ UNCHANGED <<hubVars, apiVars, cfg_gps, obs_reg, linkVars, stop_event, sig_pc,
                   smVars, pubVars, gpsVars, trkVars, loopVars, netVars, mainVars>>

SilenceNext ==
    \/ HubNext
    \/ HubTimePasses

\* the hub with stations that fall silent
SilenceSpec == HubOnlyInit /\ [][SilenceNext]_vars

\* the retained message a station's last publish_state left on the broker
RetainedState(sid, st) ==
    [topic |-> "state", sid |-> sid, state |-> st,
     tracking |-> IF st = "tracking" THEN "ISS" ELSE None, gps |-> None]

\* the retained message a station's last publish_location left on the broker
RetainedLocation(sid, gps) ==
    [topic |-> "location", sid |-> sid, state |-> "", tracking |-> None, gps |-> gps]

\* the hub subscribes to sdr/clients/+/# after every station has published its
\* state and its location: the broker owes it the retained messages
LateJoinInit ==
    /\ HubInit
    /\ DaemonInit
    /\ cfg_gps = "pigpio"
    /\ \E st \in [Stations -> {"ready", "tracking"}] :
          LET held == {RetainedState(s, st[s]) : s \in Stations}
                        \cup {RetainedLocation(s, g) : s \in Stations, g \in GpsFixes}
          IN bus = [retained |-> held, pending |-> held]
    /\ AmIdle
    /\ PpIdle
    /\ CacheIdle

DeliverFrame ==
    UNCHANGED <<sm_req, sm_det, sm_ret, sm_calls, obs_raises, tel_raises, extVars, clock, cfg_gps,
                obs_reg, linkVars, stop_event, sig_pc, smVars, pubVars, gpsVars, trkVars,
                loopVars, netVars, mainVars>>

\* _on_message for a retained state message: _handle_state up to get_client
DeliverState ==
    /\ h_pc = "idle"
    /\ \E m \in bus.pending :
          /\ m.topic = "state"
          /\ bus' = [bus EXCEPT !.pending = @ \ {m}]
          /\ h_msg' = [sid |-> m.sid, state |-> m.state, tracking |-> m.tracking]
          /\ h_pc' = IF Lookup(m.sid) = 0 THEN "hs_register" ELSE "hs_update"
    /\ UNCHANGED <<clients, heap, nextRid, ui_pc, ui_c, ui_arg, cmds>>
    /\ DeliverFrame

\* _on_message for a retained location message: _handle_location
DeliverLocation ==
    /\ h_pc = "idle"
    /\ \E m \in bus.pending :
          /\ m.topic = "location"
          /\ bus' = [bus EXCEPT !.pending = @ \ {m}]
          /\ UpdateLocation(m.sid, m.gps)
    /\ UNCHANGED <<h_pc, h_msg, ui_pc, ui_c, ui_arg, cmds>>
    /\ DeliverFrame

LateJoinNext ==
    \/ DeliverState
    \/ HandleStateRegister
    \/ HandleStateUpdate
    \/ DeliverLocation

\* a hub that joins late
LateJoinSpec == LateJoinInit /\ [][LateJoinNext]_vars

(* ------------- AntennaManager: the lock and _notify -------------------- *)

\* the device and its callers, untouched by the hub-side and catalog operations
devRest == <<clock, cfg_gps, obs_reg, linkVars, stop_event, sig_pc, smVars, pubVars, gpsVars,
             trkVars, loopVars, netVars, mainVars, sm_req, sm_det, sm_ret, sm_calls,
             obs_raises, tel_raises, bus>>
ppVars == <<pp_in, pp_out>>
cacheVars == <<satellite_data, satrec_cache, satrec_builds, satrec_ret, raceVars>>

\* what a registered callback does: returns, raises, or calls get_all_clients()
CallbackKinds == {"ok", "raises", "reenters"}

\* the methods each thread calls
AmOps(th) ==
    IF th = "net"
    THEN {"register", "update_state", "update_location", "update_telemetry",
          "update_full_status", "mark_offline"}
    ELSE {"push_track"}

\* mutation of the methods: _notify() is called inside the "with self._lock" block
LockKeptIntoNotify(th) == th

\* leaving the "with self._lock" block
LockAfterSection(th) == None

\* mutation of _notify: the try/except is missing, a raising callback ends the loop
NotifyAfterUnguarded(i, kind) == IF kind = "raises" THEN Len(am_cbs) + 1 ELSE i + 1

\* _notify: the loop moves on to the next callback, whatever this one did
NotifyAfter(i, kind) == i + 1

AmFrame == UNCHANGED <<h_pc, h_msg, ui_pc, ui_c, ui_arg, am_cbs, ppVars, cacheVars, devRest>>

\* the station the calls are about
AmStations == {"rpi-1"}

\* a thread enters one of the methods
AmCall(th) ==
    /\ am_th[th].pc = "idle"
    /\ \E op \in AmOps(th), sid \in AmStations :
          /\ op = "register" => (Lookup(sid) = 0 /\ nextRid <= MaxRecs)
          /\ am_th' = [am_th EXCEPT ![th] = [pc |-> "acquire", op |-> op, sid |-> sid, i |-> 0]]
    /\ UNCHANGED <<clients, heap, nextRid, cmds, am_lock>>
    /\ AmFrame

\* "with self._lock:" is entered (threading.Lock: one holder, not reentrant)
AmAcquire(th) ==
    /\ am_th[th].pc \in {"acquire", "acquire2"}
    /\ am_lock = None
    /\ am_lock' = th
    /\ am_th' = [am_th EXCEPT ![th].pc = IF @ = "acquire" THEN "section" ELSE "section2"]
    /\ UNCHANGED <<clients, heap, nextRid, cmds>>
    /\ AmFrame

\* where a method goes when its locked block ends: an early return, push_track's
\* publish, or self._notify()
AfterSection(c) ==
    IF c.op \in {"update_state", "update_full_status", "push_track"} /\ Lookup(c.sid) = 0
    THEN NoCall
    ELSE IF c.op = "push_track" THEN [c EXCEPT !.pc = "publish"]
    ELSE [c EXCEPT !.pc = "notify", !.i = 1]

\* the locked block of a method, up to the release of the lock
AmSection(th) ==
    LET c == am_th[th] IN
    /\ c.pc = "section"
    /\ am_lock = th
    /\ CASE c.op = "register" -> Register(c.sid, "ready")
         [] c.op = "update_state" ->
               UpdateState(c.sid, "tracking", "ISS")
         [] c.op = "update_location" -> \E gps \in GpsFixes : UpdateLocation(c.sid, gps)
         [] c.op = "update_telemetry" -> UpdateTelemetry(c.sid, 1)
         [] c.op = "update_full_status" ->
               UpdateFullStatus(c.sid, "ready", None, 0)
         [] c.op = "mark_offline" -> MarkOffline(c.sid)
         [] OTHER -> UNCHANGED <<clients, heap, nextRid>>
    /\ am_lock' = LockAfterSection(th)
    /\ am_th' = [am_th EXCEPT ![th] = AfterSection(c)]
    /\ UNCHANGED cmds
    /\ AmFrame

\* push_track: publish_track, with the lock released
AmPublish(th) ==
    /\ am_th[th].pc = "publish"
    /\ cmds' = <<"track", am_th[th].sid>>
    /\ am_th' = [am_th EXCEPT ![th].pc = "acquire2"]
    /\ UNCHANGED <<clients, heap, nextRid, am_lock>>
    /\ AmFrame

\* push_track, second locked block: c.tracking = TrackingInfo(...)
AmSection2(th) ==
    /\ am_th[th].pc = "section2"
    /\ am_lock = th
    /\ heap' = [heap EXCEPT ![Lookup(am_th[th].sid)] = WriteTracking(@, "ISS")]
    /\ am_lock' = LockAfterSection(th)
    /\ am_th' = [am_th EXCEPT ![th].pc = "notify", ![th].i = 1]
    /\ UNCHANGED <<clients, nextRid, cmds>>
    /\ AmFrame

\* _notify: one callback is called; one that reads the registry takes the lock
AmNotify(th) ==
    LET c == am_th[th] IN
    /\ c.pc = "notify"
    /\ c.i <= Len(am_cbs)
    /\ am_cbs[c.i] = "reenters" => am_lock = None
    /\ am_th' = [am_th EXCEPT ![th].i = NotifyAfter(c.i, am_cbs[c.i])]
    /\ UNCHANGED <<clients, heap, nextRid, cmds, am_lock>>
    /\ AmFrame

\* _notify has called every callback: the method returns
AmReturn(th) ==
    /\ am_th[th].pc = "notify"
    /\ am_th[th].i > Len(am_cbs)
    /\ am_th' = [am_th EXCEPT ![th] = NoCall]
    /\ UNCHANGED <<clients, heap, nextRid, cmds, am_lock>>
    /\ AmFrame

\* registered callbacks (on_change), two of any kind
NotifyInit ==
    /\ HubInit
    /\ DaemonInit
    /\ cfg_gps = "pigpio"
    /\ bus = NoBus
    /\ PpIdle
    /\ CacheIdle
    /\ am_lock = None
    /\ am_th = [th \in AmThreads |-> NoCall]
    /\ am_cbs \in [1..2 -> CallbackKinds]

NotifyNext ==
    \/ \E th \in AmThreads : AmCall(th)
    \/ \E th \in AmThreads : AmAcquire(th)
    \/ \E th \in AmThreads : AmSection(th)
    \/ \E th \in AmThreads : AmPublish(th)
    \/ \E th \in AmThreads : AmSection2(th)
    \/ \E th \in AmThreads : AmNotify(th)
    \/ \E th \in AmThreads : AmReturn(th)

\* the registry with its lock and its change notifications
NotifySpec == NotifyInit /\ [][NotifyNext]_vars

(* ------------- pass_prediction: find_passes ---------------------------- *)
(* Time is counted in units of which the 60 s coarse step holds             *)
(* 3 * 2^(BisectIterations + 1): the 5 s and 30 s steps and every midpoint  *)
(* of a bisection of a 60 s bracket fall on the grid, and the bracket a     *)
(* bisection ends with is narrower than the 5 s step, as it is in the       *)
(* source (60 s / 2^20).  An object is given by the                         *)
(* elevation the propagation yields at each instant: at or above the        *)
(* threshold on one interval, below it elsewhere, and no position at all    *)
(* (sgp4 error) at the instants of "fails".                                 *)

\* iterations of _bisect_crossing / _bisect_crossing_set (20 in the source)
BisectIterations == 3
\* length of the search window, in coarse steps ("hours")
WindowSteps == 2

MIN_ELEVATION_DEG == 5

\* step = 60 seconds
Step == 3 * 2 ^ (BisectIterations + 1)
\* timedelta(seconds=5)
FineStep == Step \div 12
\* timedelta(seconds=30)
PeakStep == Step \div 2

LowEl == MIN_ELEVATION_DEG - 1
HighEls == {MIN_ELEVATION_DEG, MIN_ELEVATION_DEG + 4}

\* satellite_ecef_at returned a position (sgp4 error == 0)
Propagable(sat, t) == t \notin sat.fails

\* _elevation_cached of that position
El(sat, t) == IF t \in sat.above THEN sat.hi ELSE LowEl

SetMax(S) == CHOOSE x \in S : \A y \in S : y <= x
SetMin(S) == CHOOSE x \in S : \A y \in S : x <= y

RECURSIVE BisectCrossing(_, _, _, _)
\* _bisect_crossing: lo below, hi above; stops at an instant without position
BisectCrossing(sat, lo, hi, n) ==
    LET mid == (lo + hi) \div 2 IN
    IF n = 0 \/ ~Propagable(sat, mid) THEN mid
    ELSE IF El(sat, mid) >= MIN_ELEVATION_DEG
         THEN BisectCrossing(sat, lo, mid, n - 1)
         ELSE BisectCrossing(sat, mid, hi, n - 1)

RECURSIVE BisectCrossingSet(_, _, _, _)
\* _bisect_crossing_set: lo above, hi below
BisectCrossingSet(sat, lo, hi, n) ==
    LET mid == (lo + hi) \div 2 IN
    IF n = 0 \/ ~Propagable(sat, mid) THEN mid
    ELSE IF El(sat, mid) >= MIN_ELEVATION_DEG
         THEN BisectCrossingSet(sat, mid, hi, n - 1)
         ELSE BisectCrossingSet(sat, lo, mid, n - 1)

\* the instants "t = from; while t <= to: ...; t += step" visits
Samples(from, to, step) == {t \in from..to : (t - from) % step = 0}

\* a scan "if el is not None and el > max_el: max_el = el" started at max_el = init
ScanMax(sat, from, to, step, init) ==
    SetMax({init} \cup {El(sat, t) : t \in {u \in Samples(from, to, step) : Propagable(sat, u)}})

\* peak_time of the 30 s scan: the first instant that reached the maximum
PeakTime(sat, from, to) ==
    LET best == ScanMax(sat, from, to, PeakStep, 0)
        hits == {t \in Samples(from, to, PeakStep) : Propagable(sat, t) /\ El(sat, t) = best}
    IN IF best > 0 /\ hits # {} THEN SetMin(hits) ELSE from

\* mutation of _find_max_elevation: the maximum is not below the threshold
FindMaxElevationFloored(sat, t_start, t_end) ==
    SetMax({MIN_ELEVATION_DEG, ScanMax(sat, t_start, t_end, FineStep, 0)})

\* _find_max_elevation
FindMaxElevation(sat, t_start, t_end) ==
    IF t_end - t_start < 2 * Step
    THEN ScanMax(sat, t_start, t_end, FineStep, 0)
    ELSE LET peak == PeakTime(sat, t_start, t_end)
             coarse == ScanMax(sat, t_start, t_end, PeakStep, 0)
             refine_start == SetMax({t_start, peak - Step})
             refine_end == SetMin({t_end, peak + Step})
         IN ScanMax(sat, refine_start, refine_end, FineStep, coarse)

\* the dict find_passes appends
Pass(sat, rise, set) ==
    [rise |-> rise, set |-> set, max_el |-> FindMaxElevation(sat, rise, set),
     duration_s |-> set - rise]

\* passes.append(...) under "if duration > 0"
Emit(passes, sat, rise, set) ==
    IF set - rise > 0 THEN Append(passes, Pass(sat, rise, set)) ELSE passes

\* mutation of find_passes: a pass open at the window end is closed one scan
\* step after it
CloseAtEndLate(passes, sat, in_pass, pass_start, end) ==
    IF in_pass THEN Emit(passes, sat, pass_start, end + Step) ELSE passes

\* mutation of find_passes: a pass open at the window end is dropped
CloseAtEndDropped(passes, sat, in_pass, pass_start, end) == passes

\* find_passes after the loop: "if in_pass and pass_start is not None"
CloseAtEnd(passes, sat, in_pass, pass_start, end) ==
    IF in_pass THEN Emit(passes, sat, pass_start, end) ELSE passes

RECURSIVE Scan(_, _, _, _, _, _, _, _)
\* the while loop of find_passes from instant t on; known: prev_el is not None
Scan(sat, t, end, in_pass, pass_start, known, prev_el, passes) ==
    IF t > end THEN CloseAtEnd(passes, sat, in_pass, pass_start, end)
    ELSE IF ~Propagable(sat, t)
    THEN Scan(sat, t + Step, end, in_pass, pass_start, FALSE, 0, passes)
    ELSE LET el == El(sat, t) IN
         IF ~in_pass
         THEN IF el >= MIN_ELEVATION_DEG
              THEN LET rise == IF known /\ prev_el < MIN_ELEVATION_DEG
                               THEN BisectCrossing(sat, t - Step, t, BisectIterations)
                               ELSE t
                   IN Scan(sat, t + Step, end, TRUE, rise, TRUE, el, passes)
              ELSE Scan(sat, t + Step, end, FALSE, pass_start, TRUE, el, passes)
         ELSE IF el < MIN_ELEVATION_DEG
              THEN LET set_time == BisectCrossingSet(sat, t - Step, t, BisectIterations)
                   IN Scan(sat, t + Step, end, FALSE, 0, TRUE, el,
                           Emit(passes, sat, pass_start, set_time))
              ELSE Scan(sat, t + Step, end, TRUE, pass_start, TRUE, el, passes)

\* find_passes(omm, ..., start_dt, hours); built: get_satrec(omm) did not raise
FindPasses(sat, start, end) ==
    IF ~sat.built THEN <<>>
    ELSE Scan(sat, start, end, FALSE, 0, FALSE, 0, <<>>)

Window == WindowSteps * Step

\* sets of instants at which the propagation fails: none, one instant, or every
\* instant from some instant on
FailSets(from, to) ==
    {{}} \cup {{f} : f \in from..to} \cup {f..to : f \in from..to}

\* eight instants per coarse step
Lattice(from, to) == Samples(from, to, Step \div 8)

\* the objects: visible on one interval of instants (or never), with failing
\* instants; or visible at any set of lattice instants, always propagated
Profiles(from, to) ==
    [above : {a..b : a \in from..to, b \in from..to}, hi : HighEls,
     fails : FailSets(from, to), built : {TRUE}]
    \cup [above : SUBSET Lattice(from, to), hi : HighEls, fails : {{}}, built : {TRUE}]

PassFrame == UNCHANGED <<hubVars, am_lock, am_th, am_cbs, cacheVars, devRest>>

PassInit ==
    /\ HubInit
    /\ DaemonInit
    /\ cfg_gps = "pigpio"
    /\ bus = NoBus
    /\ AmIdle
    /\ CacheIdle
    /\ pp_in \in [fn : {"find_passes"}, sat : Profiles(0, Window), start : {0}, end : {Window}]
    /\ pp_out = NoReturn

FindPassesCall ==
    /\ pp_in.fn = "find_passes"
    /\ ~pp_out.returned
    /\ pp_out' = [returned |-> TRUE, passes |-> FindPasses(pp_in.sat, pp_in.start, pp_in.end)]
    /\ UNCHANGED pp_in
    /\ PassFrame

\* find_passes over one search window
PassSpec == PassInit /\ [][FindPassesCall]_vars

\* the device daemon from process start: the hub's registry stays empty
\* ---- find_visible_now: the objects above the threshold at one instant ----

SetScanSteps == 2
RiseScanSteps == 1

RECURSIVE ScanForwardSetUnbounded(_, _, _, _)
\* mutation of _scan_forward_set: the scan goes one step past max_hours
ScanForwardSetUnbounded(sat, start, t, end) ==
    IF t > end + PeakStep THEN end + PeakStep
    ELSE IF ~Propagable(sat, t) \/ El(sat, t) < MIN_ELEVATION_DEG
    THEN BisectCrossingSet(sat, t - PeakStep, t, BisectIterations)
    ELSE ScanForwardSetUnbounded(sat, start, t + PeakStep, end)

RECURSIVE ScanForwardSet(_, _, _, _)
\* _scan_forward_set from instant t on (prev_t = t - PeakStep), up to end
ScanForwardSet(sat, start, t, end) ==
    IF t > end THEN end
    ELSE IF ~Propagable(sat, t) \/ El(sat, t) < MIN_ELEVATION_DEG
    THEN BisectCrossingSet(sat, t - PeakStep, t, BisectIterations)
    ELSE ScanForwardSet(sat, start, t + PeakStep, end)

RECURSIVE ScanBackwardRise(_, _, _, _)
\* _scan_backward_rise from instant t down (prev_t = t + PeakStep), down to begin
ScanBackwardRise(sat, start, t, begin) ==
    IF t < begin THEN begin
    ELSE IF ~Propagable(sat, t) \/ El(sat, t) < MIN_ELEVATION_DEG
    THEN BisectCrossing(sat, t, t + PeakStep, BisectIterations)
    ELSE ScanBackwardRise(sat, start, t - PeakStep, begin)

\* sorted(s, key): Python's sort is stable; k[i] is the key of s[i]
StableSort(s, k) ==
    LET pos(i) == 1 + Cardinality({j \in 1..Len(s) :
                        k[j] < k[i] \/ (k[j] = k[i] /\ j < i)})
    IN [p \in 1..Len(s) |-> s[CHOOSE i \in 1..Len(s) : pos(i) = p]]

\* mutation of find_visible_now: the threshold test is gone
BelowThresholdIgnored(sat, now) == FALSE

\* "if el < threshold: continue"
BelowThreshold(sat, now) == El(sat, now) < MIN_ELEVATION_DEG

\* the dict find_visible_now appends
VisibleEntry(omm, now, fav_ids) ==
    LET el == El(omm, now)
        set_time == ScanForwardSet(omm, now, now + PeakStep, now + SetScanSteps * PeakStep)
        rise_time == ScanBackwardRise(omm, now, now - PeakStep, now - RiseScanSteps * PeakStep)
    IN [norad_id |-> omm.NORAD_CAT_ID, el |-> el, rise |-> rise_time, set |-> set_time,
        max_el |-> SetMax({el, FindMaxElevation(omm, now, set_time)}),
        duration_s |-> set_time - rise_time,
        is_favorite |-> omm.NORAD_CAT_ID \in fav_ids]

RECURSIVE VisibleLoop(_, _, _, _, _)
\* "for omm in satellite_data" of find_visible_now, from the i-th object on
VisibleLoop(data, i, now, fav_ids, visible) ==
    IF i > Len(data) THEN visible
    ELSE LET omm == data[i] IN
         IF ~omm.built THEN VisibleLoop(data, i + 1, now, fav_ids, visible)
         ELSE IF ~Propagable(omm, now) THEN VisibleLoop(data, i + 1, now, fav_ids, visible)
         ELSE IF BelowThreshold(omm, now) THEN VisibleLoop(data, i + 1, now, fav_ids, visible)
         ELSE VisibleLoop(data, i + 1, now, fav_ids,
                          Append(visible, VisibleEntry(omm, now, fav_ids)))

\* mutation of find_visible_now: one list sorted by elevation
GroupedOneList(visible) ==
    StableSort(visible, [i \in 1..Len(visible) |-> 0 - visible[i].el])

\* "favs = sorted(...); others = sorted(...); return favs + others"
Grouped(visible) ==
    LET IsFav(s) == s.is_favorite
        NotFav(s) == ~s.is_favorite
        favs == SelectSeq(visible, IsFav)
        others == SelectSeq(visible, NotFav)
    IN StableSort(favs, [i \in 1..Len(favs) |-> 0 - favs[i].el])
       \o StableSort(others, [i \in 1..Len(others) |-> 0 - others[i].el])

FindVisibleNow(data, now, fav_ids) ==
    Grouped(VisibleLoop(data, 1, now, fav_ids, <<>>))

\* an element set: its catalog id and what its propagation gives
Omm(id, p) ==
    [NORAD_CAT_ID |-> id, above |-> p.above, hi |-> p.hi, fails |-> p.fails,
     built |-> p.built]

MaxList == 3

\* the catalog ids of the objects of a list, by position
ListIds == [i \in 1..MaxList |-> 25543 + i]
VisFrom == 0 - RiseScanSteps * PeakStep
VisTo == SetScanSteps * PeakStep

\* the objects of a list: up all the time or never, at one of three elevations,
\* propagated or not at the query instant, element set valid or not
ListProfiles ==
    [above : {{}, VisFrom..VisTo},
     hi : {MIN_ELEVATION_DEG, MIN_ELEVATION_DEG + 2, MIN_ELEVATION_DEG + 4},
     fails : {{}, {0}}, built : BOOLEAN]

\* lists of objects with distinct catalog ids
OmmLists(profiles) ==
    UNION {{[i \in 1..n |-> Omm(ListIds[i], ps[i])] : ps \in [1..n -> profiles]} :
           n \in 0..MaxList}

ListIdSet == {ListIds[i] : i \in 1..MaxList}

VisibleInit ==
    /\ HubInit
    /\ DaemonInit
    /\ cfg_gps = "pigpio"
    /\ bus = NoBus
    /\ AmIdle
    /\ CacheIdle
    /\ pp_in \in
         [fn : {"find_visible_now"}, now : {0}, favorites : {{}, {ListIds[1]}},
          data : {<<Omm(ListIds[1], p)>> : p \in Profiles(VisFrom, VisTo)}]
         \cup [fn : {"find_visible_now"}, now : {0}, favorites : SUBSET ListIdSet,
               data : OmmLists(ListProfiles)]
    /\ pp_out = NoReturn

FindVisibleNowCall ==
    /\ pp_in.fn = "find_visible_now"
    /\ ~pp_out.returned
    /\ pp_out' = [returned |-> TRUE,
                  visible |-> FindVisibleNow(pp_in.data, pp_in.now, pp_in.favorites)]
    /\ UNCHANGED pp_in
    /\ PassFrame

\* find_visible_now over one list of objects
VisibleSpec == VisibleInit /\ [][FindVisibleNowCall]_vars

\* ---- predict_all_favorites: the passes of the favorites in one list ----

MaxData == 2
MaxFavorites == 2
MaxCap == 2

\* max_per_sat, max_total: None or a number
NoCap == [capped |-> FALSE, n |-> 0]
Cap(n) == [capped |-> TRUE, n |-> n]

\* mutation of predict_all_favorites: the cap keeps the last passes
SliceFromEnd(s, cap) ==
    IF cap.capped /\ cap.n < Len(s) THEN SubSeq(s, Len(s) - cap.n + 1, Len(s)) ELSE s

\* "if cap is not None: s = s[:cap]"
Slice(s, cap) ==
    IF cap.capped /\ cap.n < Len(s) THEN SubSeq(s, 1, cap.n) ELSE s

\* norad_map.get(nid): the last element set of satellite_data with this id
InNoradMap(data, nid) == \E i \in 1..Len(data) : data[i].NORAD_CAT_ID = nid
NoradMap(data, nid) ==
    data[SetMax({i \in 1..Len(data) : data[i].NORAD_CAT_ID = nid})]

\* the dicts results.append(...) adds for one favorite
FavoriteRows(fav, passes) ==
    [k \in 1..Len(passes) |->
        [name |-> fav.name, norad_id |-> fav.norad_id, rise |-> passes[k].rise,
         set |-> passes[k].set, max_el |-> passes[k].max_el,
         duration_s |-> passes[k].duration_s]]

RECURSIVE PredictLoop(_, _, _, _, _, _, _)
\* "for fav in favorites" of predict_all_favorites, from the i-th favorite on
PredictLoop(favorites, i, data, start, end, max_per_sat, results) ==
    IF i > Len(favorites) THEN results
    ELSE LET fav == favorites[i] IN
         IF ~InNoradMap(data, fav.norad_id)
         THEN PredictLoop(favorites, i + 1, data, start, end, max_per_sat, results)
         ELSE LET passes == Slice(FindPasses(NoradMap(data, fav.norad_id), start, end),
                                  max_per_sat)
              IN PredictLoop(favorites, i + 1, data, start, end, max_per_sat,
                             results \o FavoriteRows(fav, passes))

\* mutation of predict_all_favorites: entries of equal rise come out reversed
SortByRiseReversingTies(results) ==
    StableSort(results, [i \in 1..Len(results) |->
                            results[i].rise * (Len(results) + 1) + Len(results) - i])

\* results.sort(key=lambda r: r["rise"])
SortByRise(results) ==
    StableSort(results, [i \in 1..Len(results) |-> results[i].rise])

PredictAllFavorites(favorites, data, start, end, max_per_sat, max_total) ==
    IF favorites = <<>> \/ data = <<>> THEN <<>>
    ELSE Slice(SortByRise(PredictLoop(favorites, 1, data, start, end, max_per_sat, <<>>)),
               max_total)

\* the objects of a prediction: up at any of the coarse scan instants, always
\* propagated or not at the middle one; or with an element set that is not valid
PredictProfiles ==
    [above : SUBSET Samples(0, Window, Step), hi : {MIN_ELEVATION_DEG},
     fails : {{}, {Step}}, built : {TRUE}]
    \cup {[above |-> {}, hi |-> MIN_ELEVATION_DEG, fails |-> {}, built |-> FALSE]}

\* satellite_data: element sets of the first MaxData catalog ids, ids may repeat
PredictData ==
    UNION {[1..n -> {Omm(ListIds[k], p) : k \in 1..MaxData, p \in PredictProfiles}] :
           n \in 0..MaxData}

\* favorites: dicts with norad_id and name; the name is the position in the list
PredictFavorites ==
    UNION {{[i \in 1..n |-> [norad_id |-> ids[i], name |-> i]] : ids \in [1..n -> ListIdSet]} :
           n \in 0..MaxFavorites}

Caps(n) == {NoCap} \cup {Cap(k) : k \in 1..n}

PredictInit ==
    /\ HubInit
    /\ DaemonInit
    /\ cfg_gps = "pigpio"
    /\ bus = NoBus
    /\ AmIdle
    /\ CacheIdle
    /\ pp_in \in [fn : {"predict_all_favorites"}, favorites : PredictFavorites,
                  data : PredictData, start : {0}, end : {Window},
                  max_per_sat : Caps(MaxCap), max_total : Caps(MaxCap + 1)]
    /\ pp_out = NoReturn

PredictAllFavoritesCall ==
    /\ pp_in.fn = "predict_all_favorites"
    /\ ~pp_out.returned
    /\ pp_out' = [returned |-> TRUE,
                  results |-> PredictAllFavorites(pp_in.favorites, pp_in.data, pp_in.start,
                                  pp_in.end, pp_in.max_per_sat, pp_in.max_total)]
    /\ UNCHANGED pp_in
    /\ PassFrame

\* predict_all_favorites over one list of favorites
PredictSpec == PredictInit /\ [][PredictAllFavoritesCall]_vars

\* ---- propagate_batch and the batch operations together ----

\* a row of the result: [lat, lon, alt, norad_id, type_idx]; nan: lat/lon/alt
\* are nan; pos stands for the three coordinates of a valid row
NanRow(omm) == [norad_id |-> omm.NORAD_CAT_ID, nan |-> TRUE, pos |-> 0]
PosRow(omm, t) == [norad_id |-> omm.NORAD_CAT_ID, nan |-> FALSE, pos |-> El(omm, t)]

\* mutation of _propagate_batch_loop: the error code of sgp4 is not looked at
LoopRowUnchecked(omm, t) == IF omm.built THEN PosRow(omm, t) ELSE NanRow(omm)

\* the body of "for i, omm in enumerate(satellites)": get_satrec raising and a
\* non-zero sgp4 error both give the nan row
LoopRow(omm, t) ==
    IF omm.built /\ Propagable(omm, t) THEN PosRow(omm, t) ELSE NanRow(omm)

PropagateBatchLoop(satellites, t) ==
    [i \in 1..Len(satellites) |-> LoopRow(satellites[i], t)]

\* _propagate_batch_vectorized: one row per Satrec of the cached array
PropagateBatchVectorized(array, t) ==
    [i \in 1..Len(array) |->
        IF Propagable(array[i], t) THEN PosRow(array[i], t) ELSE NanRow(array[i])]

\* build_satrec_array: the Satrecs of the element sets get_satrec accepts
\* (<<>>: _satrec_array is None)
BuildSatrecArray(satellites) ==
    LET Built(omm) == omm.built IN SelectSeq(satellites, Built)

PropagateBatch(satellites, t, array) ==
    IF /\ array # <<>>
       /\ Len(array) = Len(satellites)
       /\ array[1].NORAD_CAT_ID = satellites[1].NORAD_CAT_ID
       /\ array[Len(array)].NORAD_CAT_ID = satellites[Len(satellites)].NORAD_CAT_ID
    THEN PropagateBatchVectorized(array, t)
    ELSE PropagateBatchLoop(satellites, t)

\* the objects of a prediction, and one that is propagated at no instant
BatchPredictProfiles ==
    PredictProfiles
    \cup {[above |-> 0..Window, hi |-> MIN_ELEVATION_DEG, fails |-> 0..Window, built |-> TRUE]}

BatchInit ==
    /\ HubInit
    /\ DaemonInit
    /\ cfg_gps = "pigpio"
    /\ bus = NoBus
    /\ AmIdle
    /\ CacheIdle
    /\ pp_in \in
         [fn : {"find_visible_now"}, now : {0}, favorites : {{}, {ListIds[2]}},
          data : OmmLists(ListProfiles)]
         \cup [fn : {"predict_all_favorites"}, favorites : PredictFavorites,
               data : OmmLists(BatchPredictProfiles), start : {0}, end : {Window},
               max_per_sat : {NoCap}, max_total : {NoCap}]
         \cup UNION {{[fn |-> "propagate_batch", data |-> d, now |-> 0, array |-> a] :
                         a \in {<<>>, BuildSatrecArray(d)}} : d \in OmmLists(ListProfiles)}
    /\ pp_out = NoReturn

PropagateBatchCall ==
    /\ pp_in.fn = "propagate_batch"
    /\ ~pp_out.returned
    /\ pp_out' = [returned |-> TRUE,
                  rows |-> PropagateBatch(pp_in.data, pp_in.now, pp_in.array)]
    /\ UNCHANGED pp_in
    /\ PassFrame

BatchNext ==
    \/ FindVisibleNowCall
    \/ PredictAllFavoritesCall
    \/ PropagateBatchCall

\* one call of one of the three batch operations
BatchSpec == BatchInit /\ [][BatchNext]_vars

\* ---- propagate_batch against a cached array built from any list ----

\* the objects of a list: propagated at the instant, not propagated at it, or
\* with an element set that is not valid
ArrayProfiles ==
    {[above |-> {0}, hi |-> MIN_ELEVATION_DEG, fails |-> {}, built |-> TRUE],
     [above |-> {0}, hi |-> MIN_ELEVATION_DEG, fails |-> {0}, built |-> TRUE],
     [above |-> {}, hi |-> MIN_ELEVATION_DEG, fails |-> {}, built |-> FALSE]}

\* lists of element sets with any catalog ids
IdLists ==
    UNION {[1..n -> {Omm(id, p) : id \in ListIdSet, p \in ArrayProfiles}] : n \in 0..MaxList}

\* the module state is the array of the last build_satrec_array call, on any
\* list; propagate_batch is then called on any list
ArrayInit ==
    /\ HubInit
    /\ DaemonInit
    /\ cfg_gps = "pigpio"
    /\ bus = NoBus
    /\ AmIdle
    /\ CacheIdle
    /\ pp_in \in [fn : {"propagate_batch"}, data : IdLists, now : {0},
                  array : {BuildSatrecArray(l) : l \in IdLists}]
    /\ pp_out = NoReturn

ArraySpec == ArrayInit /\ [][PropagateBatchCall]_vars

\* ---- the propagator-state cache ----

\* element sets of a catalog id are numbered 1..MaxElements (0: none); the
\* last one is an element set omm_to_satrec rejects
MaxElements == 3
MaxGets == 3
Buildable(omm) == omm < MaxElements

\* the Satrec built from an element set is named by that element set
OmmToSatrec(omm) == omm

\* mutation of on_satellites_changed: the cache is not cleared
ClearSatrecCacheSkipped(cache) == cache

\* clear_satrec_cache: _satrec_cache.clear()
ClearSatrecCache(cache) == [n \in CatalogIds |-> 0]

\* mutation of get_satrec: the cache is not consulted
CachedIgnored(cache, n) == FALSE

\* "norad_id not in _satrec_cache" negated
Cached(cache, n) == cache[n] # 0

\* get_satrec(omm) for catalog id n on a cache: the cache after the call, the
\* Satrec returned, whether omm_to_satrec was called and whether it raised
GetSatrec(cache, n, omm) ==
    IF Cached(cache, n)
    THEN [cache |-> cache, state |-> cache[n], built |-> FALSE, raised |-> FALSE]
    ELSE IF Buildable(omm)
    THEN [cache |-> [cache EXCEPT ![n] = OmmToSatrec(omm)], state |-> OmmToSatrec(omm),
          built |-> TRUE, raised |-> FALSE]
    ELSE [cache |-> cache, state |-> 0, built |-> TRUE, raised |-> TRUE]

CacheFrame == UNCHANGED <<hubVars, am_lock, am_th, am_cbs, ppVars, rd_th, rb_th, pb_built, devRest>>

\* the lists of element sets a caller can hold: per catalog id none or one
Catalogs == [CatalogIds -> 0..MaxElements]

\* the application starts with nothing loaded; scripts/profile_perf.py loads a
\* list and calls the propagator on it without build_satrec_array
CacheInit ==
    /\ HubInit
    /\ DaemonInit
    /\ cfg_gps = "pigpio"
    /\ bus = NoBus
    /\ AmIdle
    /\ PpIdle
    /\ satellite_data \in Catalogs
    /\ satrec_cache = [n \in CatalogIds |-> 0]
    /\ satrec_builds = [n \in CatalogIds |-> 0]
    /\ satrec_ret = NoGet
    /\ RaceIdle

\* GlobeApp.on_satellites_changed: the new list replaces the old one, the cache
\* is cleared, and build_satrec_array calls get_satrec for every element set
\* of a non-empty list (an element set that raises is skipped)
OnSatellitesChanged ==
    \E new \in Catalogs :
        LET cleared == ClearSatrecCache(satrec_cache)
            got(n) == GetSatrec(cleared, n, new[n])
        IN
        /\ new # satellite_data
        /\ satellite_data' = new
        /\ satrec_cache' = [n \in CatalogIds |->
                               IF new[n] # 0 THEN got(n).cache[n] ELSE cleared[n]]
        /\ satrec_builds' = [n \in CatalogIds |->
                                IF new[n] # 0 /\ got(n).built THEN 1 ELSE 0]
        /\ satrec_array' = Arrays(satrec_cache')
        /\ UNCHANGED satrec_ret
        /\ CacheFrame

\* one get_satrec(omm) by find_passes, find_visible_now or
\* _propagate_batch_loop on an element set of the loaded list
GetSatrecCall ==
    \E n \in CatalogIds :
        LET got == GetSatrec(satrec_cache, n, satellite_data[n]) IN
        /\ satellite_data[n] # 0
        /\ satrec_ret.calls < MaxGets
        /\ satrec_cache' = got.cache
        /\ satrec_builds' = [satrec_builds EXCEPT ![n] = @ + (IF got.built THEN 1 ELSE 0)]
        /\ satrec_ret' = [calls |-> satrec_ret.calls + 1, id |-> n,
                          omm |-> satellite_data[n], built |-> got.built,
                          raised |-> got.raised, state |-> got.state]
        /\ UNCHANGED <<satellite_data, satrec_array>>
        /\ CacheFrame

CacheNext ==
    \/ OnSatellitesChanged
    \/ GetSatrecCall

CacheSpec == CacheInit /\ [][CacheNext]_vars

\* ---- the propagator module entered by two threads ----

\* lists whose element sets are all valid
ValidCatalogs == [CatalogIds -> 0..(MaxElements - 1)]
Loaded(list) == {n \in CatalogIds : list[n] # 0}

RaceFrame ==
    UNCHANGED <<hubVars, am_lock, am_th, am_cbs, ppVars, satrec_ret, pb_built, devRest>>

\* a list has been loaded by on_satellites_changed; both threads are outside
RaceInit ==
    /\ HubInit
    /\ DaemonInit
    /\ cfg_gps = "pigpio"
    /\ bus = NoBus
    /\ AmIdle
    /\ PpIdle
    /\ satellite_data \in ValidCatalogs \ {NoArray}
    /\ satrec_cache = satellite_data
    /\ satrec_builds = [n \in CatalogIds |-> IF satellite_data[n] # 0 THEN 1 ELSE 0]
    /\ satrec_ret = NoGet
    /\ satrec_array = Arrays(satellite_data)
    /\ rd_th = NoReader
    /\ rb_th = NoRebuild
    /\ pb_built = [th \in Threads |-> NoPayload]

\* the reader calls propagate_batch(satellite_data, t) or get_satrec(omm)
RdCall ==
    /\ rd_th.pc = "idle"
    /\ \/ rd_th' = [NoReader EXCEPT !.pc = "pb_check", !.op = "propagate_batch",
                                    !.list = satellite_data]
       \/ \E n \in Loaded(satellite_data) :
            rd_th' = [NoReader EXCEPT !.pc = "gs_check", !.op = "get_satrec",
                                      !.list = satellite_data, !.id = n]
    /\ UNCHANGED <<satellite_data, satrec_cache, satrec_builds, satrec_array, rb_th>>
    /\ RaceFrame

\* propagate_batch: the test for the cached array (the ids of a list of these
\* catalog ids match when the same ids are loaded)
PbCheck ==
    /\ rd_th.pc = "pb_check"
    /\ rd_th' = [rd_th EXCEPT !.pc =
                    IF /\ satrec_array.array # NoArray
                       /\ satrec_array.ids # NoArray
                       /\ Loaded(satrec_array.ids) = Loaded(rd_th.list)
                    THEN "vec_len" ELSE "done"]
    /\ UNCHANGED <<satellite_data, satrec_cache, satrec_builds, satrec_array, rb_th>>
    /\ RaceFrame

\* _propagate_batch_vectorized: "n = len(_satrec_array_ids)"
PbLen ==
    /\ rd_th.pc = "vec_len"
    /\ rd_th' = IF satrec_array.ids = NoArray
                THEN [rd_th EXCEPT !.pc = "done", !.error = "TypeError"]
                ELSE [rd_th EXCEPT !.pc = "vec_sgp4", !.ids = satrec_array.ids]
    /\ UNCHANGED <<satellite_data, satrec_cache, satrec_builds, satrec_array, rb_th>>
    /\ RaceFrame

\* "_satrec_array.sgp4(jd_arr, fr_arr)"
PbSgp4 ==
    /\ rd_th.pc = "vec_sgp4"
    /\ rd_th' = IF satrec_array.array = NoArray
                THEN [rd_th EXCEPT !.pc = "done", !.error = "AttributeError"]
                ELSE [rd_th EXCEPT !.pc = "vec_ids", !.array = satrec_array.array]
    /\ UNCHANGED <<satellite_data, satrec_cache, satrec_builds, satrec_array, rb_th>>
    /\ RaceFrame

\* "result[:, 3] = _satrec_array_ids": the ids are read a second time and have
\* to fit the rows made from the first read
PbIds ==
    /\ rd_th.pc = "vec_ids"
    /\ rd_th' = IF satrec_array.ids = NoArray
                THEN [rd_th EXCEPT !.pc = "done", !.error = "TypeError"]
                ELSE IF Loaded(satrec_array.ids) # Loaded(rd_th.ids)
                THEN [rd_th EXCEPT !.pc = "done", !.error = "ValueError"]
                ELSE [rd_th EXCEPT !.pc = "vec_types", !.ids = satrec_array.ids]
    /\ UNCHANGED <<satellite_data, satrec_cache, satrec_builds, satrec_array, rb_th>>
    /\ RaceFrame

\* "result[:, 4] = _satrec_array_type_indices[:n] if ... is not None else 0"
PbTypes ==
    /\ rd_th.pc = "vec_types"
    /\ rd_th' = [rd_th EXCEPT !.pc = "done", !.types = satrec_array.types]
    /\ UNCHANGED <<satellite_data, satrec_cache, satrec_builds, satrec_array, rb_th>>
    /\ RaceFrame

\* get_satrec: "if norad_id not in _satrec_cache"
GsCheck ==
    /\ rd_th.pc = "gs_check"
    /\ rd_th' = [rd_th EXCEPT !.pc = IF Cached(satrec_cache, rd_th.id)
                                     THEN "gs_return" ELSE "gs_build"]
    /\ UNCHANGED <<satellite_data, satrec_cache, satrec_builds, satrec_array, rb_th>>
    /\ RaceFrame

\* "_satrec_cache[norad_id] = omm_to_satrec(omm)"
GsBuild ==
    /\ rd_th.pc = "gs_build"
    /\ satrec_cache' = [satrec_cache EXCEPT ![rd_th.id] = OmmToSatrec(rd_th.list[rd_th.id])]
    /\ satrec_builds' = [satrec_builds EXCEPT ![rd_th.id] = @ + 1]
    /\ rd_th' = [rd_th EXCEPT !.pc = "gs_return"]
    /\ UNCHANGED <<satellite_data, satrec_array, rb_th>>
    /\ RaceFrame

\* "return _satrec_cache[norad_id]"
GsReturn ==
    /\ rd_th.pc = "gs_return"
    /\ rd_th' = IF Cached(satrec_cache, rd_th.id)
                THEN [rd_th EXCEPT !.pc = "done", !.state = satrec_cache[rd_th.id]]
                ELSE [rd_th EXCEPT !.pc = "done", !.error = "KeyError"]
    /\ UNCHANGED <<satellite_data, satrec_cache, satrec_builds, satrec_array, rb_th>>
    /\ RaceFrame

\* the reader's caller takes the result
RdReturn ==
    /\ rd_th.pc = "done"
    /\ rd_th' = NoReader
    /\ UNCHANGED <<satellite_data, satrec_cache, satrec_builds, satrec_array, rb_th>>
    /\ RaceFrame

\* on_satellites_changed(message) is entered with another list
RbCall ==
    /\ rb_th.pc = "idle"
    /\ \E new \in ValidCatalogs \ {satellite_data} :
          rb_th' = [pc |-> "assign", new |-> new]
    /\ UNCHANGED <<satellite_data, satrec_cache, satrec_builds, satrec_array, rd_th>>
    /\ RaceFrame

\* "self.globe_display.satellite_data = message.satellite_data"
RbAssign ==
    /\ rb_th.pc = "assign"
    /\ satellite_data' = rb_th.new
    /\ rb_th' = [rb_th EXCEPT !.pc = "clear_cache"]
    /\ UNCHANGED <<satrec_cache, satrec_builds, satrec_array, rd_th>>
    /\ RaceFrame

\* clear_satrec_cache: "_satrec_cache.clear()"
RbClearCache ==
    /\ rb_th.pc = "clear_cache"
    /\ satrec_cache' = ClearSatrecCache(satrec_cache)
    /\ satrec_builds' = [n \in CatalogIds |-> 0]
    /\ rb_th' = [rb_th EXCEPT !.pc = "clear_array"]
    /\ UNCHANGED <<satellite_data, satrec_array, rd_th>>
    /\ RaceFrame

\* "_satrec_array = None"
RbClearArray ==
    /\ rb_th.pc = "clear_array"
    /\ satrec_array' = [satrec_array EXCEPT !.array = NoArray]
    /\ rb_th' = [rb_th EXCEPT !.pc = "clear_ids"]
    /\ UNCHANGED <<satellite_data, satrec_cache, satrec_builds, rd_th>>
    /\ RaceFrame

\* "_satrec_array_ids = None"
RbClearIds ==
    /\ rb_th.pc = "clear_ids"
    /\ satrec_array' = [satrec_array EXCEPT !.ids = NoArray]
    /\ rb_th' = [rb_th EXCEPT !.pc = "clear_types"]
    /\ UNCHANGED <<satellite_data, satrec_cache, satrec_builds, rd_th>>
    /\ RaceFrame

\* "_satrec_array_type_indices = None", then "if message.satellite_data:"
RbClearTypes ==
    /\ rb_th.pc = "clear_types"
    /\ satrec_array' = [satrec_array EXCEPT !.types = NoArray]
    /\ rb_th' = IF rb_th.new = NoArray THEN NoRebuild ELSE [rb_th EXCEPT !.pc = "build"]
    /\ UNCHANGED <<satellite_data, satrec_cache, satrec_builds, rd_th>>
    /\ RaceFrame

\* build_satrec_array: the loop of get_satrec calls
RbBuild ==
    /\ rb_th.pc = "build"
    /\ satrec_cache' = [n \in CatalogIds |->
                           IF rb_th.new[n] # 0
                           THEN GetSatrec(satrec_cache, n, rb_th.new[n]).cache[n]
                           ELSE satrec_cache[n]]
    /\ satrec_builds' = [n \in CatalogIds |->
                            IF rb_th.new[n] # 0 /\ GetSatrec(satrec_cache, n, rb_th.new[n]).built
                            THEN satrec_builds[n] + 1 ELSE satrec_builds[n]]
    /\ rb_th' = [rb_th EXCEPT !.pc = "set_array"]
    /\ UNCHANGED <<satellite_data, satrec_array, rd_th>>
    /\ RaceFrame

\* the Satrecs the loop collected: the cached state of every id of the list
Collected == [n \in CatalogIds |-> IF rb_th.new[n] # 0 THEN satrec_cache[n] ELSE 0]

\* "_satrec_array = SatrecArray(satrecs)"
RbSetArray ==
    /\ rb_th.pc = "set_array"
    /\ satrec_array' = [satrec_array EXCEPT !.array = Collected]
    /\ rb_th' = [rb_th EXCEPT !.pc = "set_ids"]
    /\ UNCHANGED <<satellite_data, satrec_cache, satrec_builds, rd_th>>
    /\ RaceFrame

\* "_satrec_array_ids = ids"
RbSetIds ==
    /\ rb_th.pc = "set_ids"
    /\ satrec_array' = [satrec_array EXCEPT !.ids = Collected]
    /\ rb_th' = [rb_th EXCEPT !.pc = "set_types"]
    /\ UNCHANGED <<satellite_data, satrec_cache, satrec_builds, rd_th>>
    /\ RaceFrame

\* "_satrec_array_type_indices = type_indices"
RbSetTypes ==
    /\ rb_th.pc = "set_types"
    /\ satrec_array' = [satrec_array EXCEPT !.types = Collected]
    /\ rb_th' = NoRebuild
    /\ UNCHANGED <<satellite_data, satrec_cache, satrec_builds, rd_th>>
    /\ RaceFrame

RaceNext ==
    \/ RdCall
    \/ PbCheck
    \/ PbLen
    \/ PbSgp4
    \/ PbIds
    \/ PbTypes
    \/ GsCheck
    \/ GsBuild
    \/ GsReturn
    \/ RdReturn
    \/ RbCall
    \/ RbAssign
    \/ RbClearCache
    \/ RbClearArray
    \/ RbClearIds
    \/ RbClearTypes
    \/ RbBuild
    \/ RbSetArray
    \/ RbSetIds
    \/ RbSetTypes

\* a reader thread and a rebuilding thread, statement by statement
RaceSpec == RaceInit /\ [][RaceNext]_vars

Init == DevInit /\ HubInit
Spec == Init /\ [][DevNext]_vars

\* a READY daemon at the head of its maintenance loop: observers wired, the broker
\* link up or not yet up, no GPS hardware or a reader whose fix flag is in fixes
ReadyInit(fixes) ==
    /\ HubInit
    /\ clock = ClockStart
    /\ cfg_gps \in {"pigpio", "none"}
    /\ sm_state = READY
    /\ sm_error = ""
    /\ sm_since = ClockStart
    /\ obs_reg = TRUE
    /\ cb_pending = {}
    /\ pub_state = [state |-> READY, tracking |-> FALSE]
    /\ pub_telem = 0
    /\ mq_connected \in BOOLEAN
    /\ link_down_at = IF mq_connected THEN 0 ELSE ClockStart
    /\ gps_conn = (cfg_gps = "pigpio")
    /\ gps_fix \in (IF cfg_gps = "pigpio" THEN fixes ELSE {FALSE})
    /\ stop_event = FALSE
    /\ trk_running = FALSE
    /\ trk_active = FALSE
    /\ trk_thread = 0
    /\ trk_sat = None
    /\ trk_az = 0
    /\ l_pc = [t \in Loops |-> "dead"]
    /\ l_set = [t \in Loops |-> 0]
    /\ l_cap = 1
    /\ n_pc = "idle"
    /\ n_msg = NoTrack
    /\ m_pc = "poll"
    /\ m_now = 0
    /\ m_cur = None
    /\ m_ds = 0
    /\ m_lra = 0
    /\ m_lgr = 0
    /\ m_llt \in {ClockStart - age : age \in LocAges}
    /\ m_tries = 0
    /\ sig_pc = "idle"
    /\ sm_req = None
    /\ sm_det = ""
    /\ sm_ret = FALSE
    /\ sm_calls = 0
    /\ obs_raises = FALSE
    /\ bus = NoBus
    /\ AmIdle
    /\ PpIdle
    /\ CacheIdle
    /\ tel_raises = FALSE

\* the daemon as daemon_startup leaves it at "Client ready", a first fix read
RunInit == ReadyInit({TRUE})

\* command handling and the tracking threads, the broker link up and the
\* maintenance loop in its sleep; the fix may have been lost by a reader reconnect
TrackInit == ReadyInit(BOOLEAN) /\ mq_connected

TrackNext ==
    \/ Callbacks
    \/ LoopTick
    \/ LoopTelemetry
    \/ LoopSleep
    \/ LoopExit
    \/ LoopEnd
    \/ OnTrackMessage
    \/ HandleTrackCheck
    \/ HandleTrackReturn
    \/ HandleTrackTransition
    \/ HandleStop
    \/ StartStopFlag
    \/ NetStopJoin
    \/ StartRun
    \/ HandleStopTransition

TrackSpec == TrackInit /\ [][TrackNext]_vars

(* ------------------------- a session left to itself -------------------- *)

\* a track command whose pass-set instant lies within the modelled time
TrackMessageInTime ==
    /\ OnTrackMessage
    /\ n_msg'.set_time <= MaxClock

\* the paho network thread inside _handle_track: it runs to the handler's end
NetRun ==
    \/ HandleTrackCheck
    \/ HandleTrackReturn
    \/ HandleTrackTransition
    \/ StartStopFlag
    \/ NetStopJoin
    \/ StartRun

\* the tracking threads: a started thread is scheduled and its sleeps return
LoopRun ==
    \/ LoopTick
    \/ LoopTelemetry
    \/ LoopSleep
    \/ LoopExit
    \/ LoopEnd

\* track commands and the tracking threads, no stop command and no shutdown
ExpiryNext ==
    \/ Callbacks
    \/ LoopRun
    \/ TrackMessageInTime
    \/ NetRun

\* every thread that can take a step is eventually scheduled; whether a track
\* command arrives is up to the hub
ExpirySpec ==
    /\ TrackInit
    /\ [][ExpiryNext]_vars
    /\ WF_vars(Callbacks)
    /\ WF_vars(LoopRun)
    /\ WF_vars(NetRun)

(* ------------------------- publish_state, statement by statement ------- *)

\* variables the publishing observer neither reads into its payload nor writes
PublishFrame ==
    UNCHANGED <<hubVars, sm_req, sm_det, sm_ret, sm_calls, obs_raises, tel_raises, bus,
                am_lock, am_th, am_cbs, ppVars, satellite_data, satrec_cache, satrec_builds,
                satrec_ret, satrec_array, rd_th, rb_th, clock, cfg_gps, obs_reg, linkVars,
                stop_event, sig_pc, sm_state, sm_error, sm_since, pub_telem, gpsVars,
                trkVars, loopVars, netVars, mainVars>>

\* _publish_state_payload up to json.dumps: the thread in transition()'s fan-out
\* reads tracker.active and state_mgr.state into its payload
PublishStateBuild ==
    /\ \E th \in Threads :
          /\ ~Exited
          /\ th \in cb_pending
          /\ "publish_state" \in Invoked(Observers)
          /\ pb_built[th] = NoPayload
          /\ pb_built' = [pb_built EXCEPT ![th] = StatePayload(None)]
    /\ UNCHANGED <<cb_pending, pub_state>>
    /\ PublishFrame

\* _publish_state_payload: self._mqtt.publish(..., retain=True); the fan-out ends
PublishStateSend ==
    /\ \E th \in Threads :
          /\ ~Exited
          /\ th \in cb_pending
          /\ pb_built[th] # NoPayload
          /\ pub_state' = pb_built[th]
          /\ pb_built' = [pb_built EXCEPT ![th] = NoPayload]
          /\ cb_pending' = cb_pending \ {th}
    /\ PublishFrame

\* commands, the tracking threads and the observers of their transitions
PublishNext ==
    \/ PublishStateBuild
    \/ PublishStateSend
    \/ LoopRun
    \/ OnTrackMessage
    \/ NetRun
    \/ HandleStop
    \/ HandleStopTransition

PublishSpec == TrackInit /\ [][PublishNext]_vars

(* ------------------------- commands after a link outage ---------------- *)

\* a daemon the watchdog has moved to DEGRADED and whose link has just come back:
\* _on_connect has published the state, the maintenance loop is in its sleep and
\* has not yet seen the link up
LinkBackInit ==
    /\ HubInit
    /\ clock = ClockStart
    /\ cfg_gps \in {"pigpio", "none"}
    /\ sm_state = DEGRADED
    /\ sm_error = ""
    /\ sm_since = ClockStart - 1
    /\ obs_reg = TRUE
    /\ cb_pending = {}
    /\ pub_state = [state |-> DEGRADED, tracking |-> FALSE]
    /\ pub_telem = 0
    /\ mq_connected = TRUE
    /\ link_down_at = 0
    /\ gps_conn = (cfg_gps = "pigpio")
    /\ gps_fix \in (IF cfg_gps = "pigpio" THEN BOOLEAN ELSE {FALSE})
    /\ stop_event = FALSE
    /\ trk_running = FALSE
    /\ trk_active = FALSE
    /\ trk_thread = 0
    /\ trk_sat = None
    /\ trk_az = 0
    /\ l_pc = [t \in Loops |-> "dead"]
    /\ l_set = [t \in Loops |-> 0]
    /\ l_cap = 1
    /\ n_pc = "idle"
    /\ n_msg = NoTrack
    /\ m_pc = "poll"
    /\ m_now = ClockStart - 1
    /\ m_cur = READY
    /\ m_ds = ClockStart - 1 - (DISCONNECT_TIMEOUT + 1)
    /\ m_lra = 0
    /\ m_lgr = 0
    /\ m_llt = ClockStart - 1
    /\ m_tries = 0
    /\ sig_pc = "idle"
    /\ sm_req = None
    /\ sm_det = ""
    /\ sm_ret = FALSE
    /\ sm_calls = 0
    /\ obs_raises = FALSE
    /\ bus = NoBus
    /\ AmIdle
    /\ PpIdle
    /\ CacheIdle
    /\ tel_raises = FALSE

\* track and stop commands served in READY or in DEGRADED
CommandSpec == (TrackInit \/ LinkBackInit) /\ [][TrackNext]_vars

\* the daemon some time after "Client ready" with a track command served: TRACKING,
\* the session's thread about to tick at instant now, the pass ending PassLeft
\* later; cap loop threads can be alive at once
SessionInit(cap, now) ==
    /\ HubInit
    /\ clock = now
    /\ cfg_gps = "pigpio"
    /\ sm_state = TRACKING
    /\ sm_error = ""
    /\ sm_since = now
    /\ obs_reg = TRUE
    /\ cb_pending = {}
    /\ pub_state = [state |-> TRACKING, tracking |-> FALSE]
    /\ pub_telem = 0
    /\ mq_connected \in BOOLEAN
    /\ link_down_at = IF mq_connected THEN 0 ELSE now
    /\ gps_conn = TRUE
    /\ gps_fix = TRUE
    /\ stop_event = FALSE
    /\ trk_running = TRUE
    /\ trk_active = TRUE
    /\ trk_thread = 1
    /\ trk_sat \in Targets
    /\ trk_az = 0
    /\ l_pc = [t \in Loops |-> IF t = 1 THEN "check" ELSE "dead"]
    /\ l_set \in {[t \in Loops |-> IF t = 1 THEN now + left ELSE 0] : left \in PassLeft}
    /\ l_cap = cap
    /\ n_pc = "idle"
    /\ n_msg = NoTrack
    /\ m_pc = "poll"
    /\ m_now = 0
    /\ m_cur = None
    /\ m_ds = 0
    /\ m_lra = 0
    /\ m_lgr = 0
    /\ m_llt \in {now - age : age \in LocAges}
    /\ m_tries = 0
    /\ sig_pc = "idle"
    /\ sm_req = None
    /\ sm_det = ""
    /\ sm_ret = FALSE
    /\ sm_calls = 0
    /\ obs_raises = FALSE
    /\ bus = NoBus
    /\ AmIdle
    /\ PpIdle
    /\ CacheIdle

TrackingInit == SessionInit(1, ClockStart) /\ tel_raises = FALSE

\* the maintenance loop, the broker link and the tracking thread; no command arrives
WatchInit == RunInit \/ TrackingInit

WatchNext ==
    \/ Callbacks
    \/ LoopTick
    \/ LoopTelemetry
    \/ LoopSleep
    \/ LoopExit
    \/ LoopEnd
    \/ OnConnect
    \/ OnDisconnect
    \/ MainPoll
    \/ MainWatchdog
    \/ MainGpsRecovery
    \/ MainRecoveryWait
    \/ MainRecoveryPublish
    \/ MainLocation
    \/ MainExcept
    \/ MainExceptTransition

WatchSpec == WatchInit /\ [][WatchNext]_vars

\* a track command arrives while a session is under way: start() stops the prior
\* run and the process can hold the old and the new loop thread at once
RestartInit ==
    SessionInit(MaxLoops, RestartClock) /\ mq_connected /\ m_llt = RestartClock /\ tel_raises = FALSE

RestartNext ==
    \/ Callbacks
    \/ LoopTick
    \/ LoopTelemetry
    \/ LoopSleep
    \/ LoopExit
    \/ LoopEnd
    \/ OnTrackMessage
    \/ HandleTrackCheck
    \/ HandleTrackReturn
    \/ HandleTrackTransition
    \/ StartStopFlag
    \/ NetStopJoin
    \/ StartRun

RestartSpec == RestartInit /\ [][RestartNext]_vars

\* SIGTERM / SIGINT reaches a READY or TRACKING daemon whose link is up: the
\* handler, the maintenance loop that sees stop_event, mqtt.stop() and main()'s
\* finally block, the tracking thread and stop commands going on meanwhile
ShutdownInit == WatchInit /\ mq_connected

ShutdownNext ==
    \/ Callbacks
    \/ LoopTick
    \/ LoopTelemetry
    \/ LoopSleep
    \/ LoopExit
    \/ LoopEnd
    \/ HandleStop
    \/ NetStopJoin
    \/ HandleStopTransition
    \/ SignalTransition
    \/ SignalSet
    \/ MainPoll
    \/ MainWatchdog
    \/ MainGpsRecovery
    \/ MainRecoveryWait
    \/ MainRecoveryPublish
    \/ MainLocation
    \/ MainExcept
    \/ MainExceptTransition
    \/ MainMqttStop
    \/ MainFinallyStop
    \/ MainFinallyJoin

ShutdownSpec == ShutdownInit /\ [][ShutdownNext]_vars

\* a session under way, a telemetry callback that raises registered or not; the
\* session ends at its pass-set instant or by a stop command
LoopInit ==
    SessionInit(1, ClockStart) /\ mq_connected /\ m_llt = ClockStart /\ tel_raises \in BOOLEAN

LoopNext ==
    \/ Callbacks
    \/ LoopTick
    \/ LoopTelemetry
    \/ LoopSleep
    \/ LoopExit
    \/ LoopEnd
    \/ HandleStop
    \/ NetStopJoin
    \/ HandleStopTransition

LoopSpec == LoopInit /\ [][LoopNext]_vars

\* a daemon whose link has been down for a while: TRACKING since before the link
\* went down, its session under way and the timer restarted by the poll a second
\* ago, or DEGRADED since the watchdog's timeout; the maintenance loop has just
\* read now and cur_state, and its last forced reconnect lies exactly, or one second
\* more than, the interval back
ReconnectInit ==
    /\ HubInit
    /\ clock = ClockStart
    /\ cfg_gps = "pigpio"
    /\ sm_state \in {TRACKING, DEGRADED}
    /\ sm_error = ""
    /\ obs_reg = TRUE
    /\ cb_pending = {}
    /\ pub_state = [state |-> sm_state, tracking |-> FALSE]
    /\ pub_telem = 0
    /\ mq_connected = FALSE
    /\ link_down_at = ClockStart - DownAge
    /\ gps_conn = TRUE
    /\ gps_fix = TRUE
    /\ stop_event = FALSE
    /\ trk_running = (sm_state = TRACKING)
    /\ trk_active = (sm_state = TRACKING)
    /\ trk_thread = IF sm_state = TRACKING THEN 1 ELSE 0
    /\ trk_sat \in (IF sm_state = TRACKING THEN Targets ELSE {None})
    /\ trk_az = 0
    /\ l_pc = [t \in Loops |-> IF t = 1 /\ sm_state = TRACKING THEN "check" ELSE "dead"]
    /\ l_set \in {[t \in Loops |-> IF t = 1 /\ sm_state = TRACKING THEN ClockStart + left ELSE 0] :
                    left \in PassLeft}
    /\ l_cap = 1
    /\ n_pc = "idle"
    /\ n_msg = NoTrack
    /\ m_pc = "watchdog"
    /\ m_now = ClockStart
    /\ m_cur = sm_state
    /\ m_ds = IF sm_state = TRACKING THEN ClockStart - 1 ELSE ClockStart - SeenDownAge
    /\ sm_since = IF sm_state = TRACKING THEN link_down_at - 1
                   ELSE m_ds + DISCONNECT_TIMEOUT + 1
    /\ m_lra \in {ClockStart - RECONNECT_INTERVAL, ClockStart - (RECONNECT_INTERVAL + 1)}
    /\ m_lgr = 0
    /\ m_llt = ClockStart
    /\ m_tries = 0
    /\ sig_pc = "idle"
    /\ sm_req = None
    /\ sm_det = ""
    /\ sm_ret = FALSE
    /\ sm_calls = 0
    /\ obs_raises = FALSE
    /\ bus = NoBus
    /\ AmIdle
    /\ PpIdle
    /\ CacheIdle
    /\ tel_raises = FALSE

ReconnectSpec == ReconnectInit /\ [][WatchNext]_vars

(* ------------------------- StateManager alone ------------------------- *)

\* transition(): "return False" on the rejection, "return True" at the end
TransitionReturns(new) == Allowed(sm_state, new)

\* error_detail arguments of a call
Details == {"", "boom"}

\* some thread calls transition(new, detail) and keeps the returned value
SMCall ==
    /\ sm_calls < MaxCalls
    /\ \E th \in {"main", "net"}, new \in State, detail \in Details :
          /\ th \notin cb_pending
          /\ Transition(th, new, detail)
          /\ sm_req' = new
          /\ sm_det' = detail
          /\ sm_ret' = TransitionReturns(new)
    /\ sm_calls' = sm_calls + 1
    /\ UNCHANGED <<hubVars, obs_raises, tel_raises, bus, extVars, clock, cfg_gps, obs_reg, linkVars, stop_event, sig_pc,
                   pubVars, gpsVars, trkVars, loopVars, netVars, mainVars>>

\* StateManager.on_transition(callback): an observer is registered
SMObserve ==
    /\ ~obs_reg
    /\ obs_reg' = TRUE
    /\ UNCHANGED <<hubVars, apiVars, clock, cfg_gps, linkVars, stop_event, sig_pc,
                   smVars, pubVars, gpsVars, trkVars, loopVars, netVars, mainVars>>

\* on_transition(callback) with a callback that raises, before the publishing one
SMObserveRaising ==
    /\ ~obs_raises
    /\ ~obs_reg
    /\ obs_raises' = TRUE
    /\ UNCHANGED <<hubVars, sm_req, sm_det, sm_ret, sm_calls, tel_raises, bus, extVars, clock, cfg_gps, obs_reg, linkVars,
                   stop_event, sig_pc, smVars, pubVars, gpsVars, trkVars, loopVars, netVars,
                   mainVars>>

\* time passes between calls (time.time() of transition reads a later clock)
SMTimePasses ==
    /\ \E gap \in PollGaps : Sleep(gap)
    /\ UNCHANGED <<hubVars, apiVars, cfg_gps, obs_reg, linkVars, stop_event, sig_pc,
                   smVars, pubVars, gpsVars, trkVars, loopVars, netVars, mainVars>>

SMNext ==
    \/ SMCall
    \/ SMObserve
    \/ SMObserveRaising
    \/ Callbacks
    \/ SMTimePasses

\* a freshly constructed StateManager and its callers
SMSpec == Init /\ [][SMNext]_vars

(***************************************************************************)
(* Properties                                                              *)
(***************************************************************************)

\* the record registered under station s
Rec(s) == heap[clients[s]]

(***************************************************************************)
(* C1: in the hub registry, whenever no operation is under way, every     *)
(* station record has a tracking target exactly when its status is        *)
(* "tracking".                                                             *)
(***************************************************************************)
C1_TrackingIffStatus ==
    (h_pc = "idle" /\ ui_pc = "idle") =>
        \A s \in Stations :
            clients[s] # 0 => ((Rec(s).tracking # None) <=> (Rec(s).status = "tracking"))

\* a step of the maintenance loop's watchdog, of the network thread's fix test,
\* of a rejected command's return, of thread t of the tracking loop
WatchdogStep == m_pc = "watchdog" /\ m_pc' # "watchdog"
TrackCheckStep == n_pc = "track_check" /\ n_pc' # "track_check"
TrackReturnStep == n_pc = "track_rejected" /\ n_pc' # "track_rejected"
LoopStep(t) == l_pc'[t] # l_pc[t]

(***************************************************************************)
(* C2: the lifecycle state that follows TRACKING is TRACKING, READY,      *)
(* ERROR or SHUTDOWN, never DEGRADED, whatever the maintenance loop, the  *)
(* link and the tracking thread do and however long the link is down.     *)
(***************************************************************************)
C2_TrackingNeverDegraded ==
    [][ sm_state = TRACKING => sm_state' \in {TRACKING, READY, ERROR, SHUTDOWN} ]_vars

\* TRACKING, the link down for more than the timeout, the watchdog has just run
C2_Witness ==
    /\ sm_state = TRACKING
    /\ m_cur = TRACKING
    /\ m_pc = "gps_recovery"
    /\ ~mq_connected
    /\ m_now - link_down_at > DISCONNECT_TIMEOUT

(***************************************************************************)
(* C3: a call of transition for a pair that is not in TRANSITIONS returns *)
(* False and leaves state, state_since and error_detail unchanged; no     *)
(* observer is invoked: the caller enters no fan-out, nothing is          *)
(* published.                                                              *)
(***************************************************************************)
C3_RejectedLeavesState ==
    [][ (sm_calls' = sm_calls + 1 /\ sm_req' \notin TRANSITIONS[sm_state])
            => /\ sm_ret' = FALSE
               /\ UNCHANGED <<sm_state, sm_since, sm_error, cb_pending, pub_state>> ]_vars

\* BOOT to TRACKING was asked for, later than construction, an observer registered
C3_Witness ==
    /\ sm_state = BOOT
    /\ sm_req = TRACKING
    /\ sm_calls = 1
    /\ ~sm_ret
    /\ obs_reg
    /\ clock > sm_since

(***************************************************************************)
(* C4: after stop() has returned no telemetry callback runs for, and no   *)
(* az/el is stored by, the stopped session: a loop thread that stores     *)
(* az/el or invokes the telemetry callbacks is the tracker's current      *)
(* thread.                                                                 *)
(***************************************************************************)
C4_NoTelemetryAfterStop ==
    [][ \A t \in Loops :
          (LoopStep(t) /\ l_pc[t] \in {"check", "callbacks"} /\ l_pc'[t] \in {"callbacks", "sleep"}
             /\ (trk_az' # trk_az \/ l_pc[t] = "callbacks"))
            => trk_thread = t ]_vars

(***************************************************************************)
(* C5: a poll of the maintenance loop that finds the device DEGRADED and  *)
(* the link connected moves the device to READY, however DEGRADED was     *)
(* entered.                                                                *)
(***************************************************************************)
C5_DegradedConnectedRecovers ==
    [][ (WatchdogStep /\ sm_state = DEGRADED /\ m_cur = DEGRADED /\ mq_connected)
            => sm_state' = READY ]_vars

C7_RecordsPersist ==
    [][ \A s \in Stations :
          /\ clients[s] # 0 => clients'[s] = clients[s]
          /\ (clients[s] # 0 /\ Rec(s).gps # None) => heap'[clients[s]].gps # None
          /\ \A t \in Stations : (clients'[s] # 0 /\ clients'[s] = clients'[t]) => s = t
          /\ (h_pc = "hs_update" /\ h_pc' = "idle" /\ h_msg.sid = s) => clients'[s] # 0
      ]_vars

\* a station with a GPS fix was marked offline and then sent a state message again
C7_Witness ==
    \E s \in Stations :
        /\ clients[s] # 0
        /\ Rec(s).gps # None
        /\ Rec(s).status = "offline"
        /\ h_pc = "hs_update" /\ h_msg.sid = s

(***************************************************************************)
(* C8: lookup and write of a registry mutation happen in one acquisition  *)
(* of the lock: while push_track is between its lookup and its write, no  *)
(* step other than that write changes the registry.                       *)
(***************************************************************************)
C8_LookupWriteAtomic ==
    [][ (ui_pc \in {"pt_publish", "pt_write"} /\ ~(ui_pc = "pt_write" /\ ui_pc' = "idle"))
            => UNCHANGED <<clients, heap>> ]_vars

(***************************************************************************)
(* C9: a track command handled while the reader has no fix (no reading,   *)
(* or fix false) is rejected: lifecycle state, tracker, loop threads and  *)
(* published payloads stay as they are and the handler returns.           *)
(***************************************************************************)
C9_NoFixRejected ==
    [][ /\ (TrackCheckStep /\ n_msg.valid /\ ~(gps_conn' /\ gps_fix'))
            => /\ n_pc' = "track_rejected"
               /\ UNCHANGED <<smVars, trkVars, loopVars, pubVars>>
        /\ TrackReturnStep
            => /\ n_pc' = "idle"
               /\ UNCHANGED <<smVars, trkVars, loopVars, pubVars>> ]_vars

\* a well-formed track command has just been refused for want of a fix
C9_Witness ==
    /\ n_pc = "track_rejected"
    /\ n_msg.valid
    /\ ~(gps_conn /\ gps_fix)
    /\ sm_state = READY
    /\ ~trk_active

(***************************************************************************)
(* C10: a running session's thread that ticks when the clock has reached  *)
(* its pass-set instant leaves the loop without storing or emitting       *)
(* anything; it then clears active, then asks for READY, which a TRACKING *)
(* device enters, and it ends without further telemetry.                  *)
(***************************************************************************)
C10_NaturalEnd ==
    [][ \A t \in Loops : LoopStep(t) =>
          /\ (l_pc[t] = "check" /\ trk_running /\ clock >= l_set[t])
                => (l_pc'[t] = "exit_natural" /\ UNCHANGED <<pub_telem, trk_az>>)
          /\ l_pc[t] = "exit_natural"
                => (l_pc'[t] = "end" /\ ~trk_active' /\ UNCHANGED <<pub_telem, trk_az>>)
          /\ l_pc[t] = "end"
                => /\ l_pc'[t] = "dead"
                   /\ sm_state = TRACKING => sm_state' = READY
                   /\ UNCHANGED <<pub_telem, trk_az>> ]_vars

\* a session that emitted telemetry has left its loop at the pass-set instant and
\* is about to ask for READY, the device still TRACKING
C10_Witness ==
    \E t \in Loops :
        /\ l_pc[t] = "end"
        /\ clock >= l_set[t]
        /\ pub_telem = t
        /\ ~trk_active
        /\ sm_state = TRACKING

\* thread t invokes the telemetry callbacks
EmitStep(t) == l_pc[t] = "callbacks" /\ l_pc'[t] = "sleep"

(***************************************************************************)
(* C11: once start() has replaced an earlier session, the earlier         *)
(* session's thread emits no telemetry: whenever the tracker holds a      *)
(* current loop thread, a thread that invokes the telemetry callbacks is  *)
(* that thread (a single producer), the case of the join that expired     *)
(* included.                                                               *)
(***************************************************************************)
C11_SingleProducer ==
    [][ \A t \in Loops : (EmitStep(t) /\ trk_thread # 0) => trk_thread = t ]_vars

\* a thread enters stop() (its first statement clears _running), and stop() returns
StopCallStep ==
    \/ n_pc \in {"idle", "start_stop"} /\ n_pc' \in {"stop_join", "start_join"}
    \/ m_pc = "finally" /\ m_pc' = "finally_join"
StopReturnStep ==
    \/ n_pc \in {"stop_join", "start_join"} /\ n_pc' \notin {"stop_join", "start_join"}
    \/ m_pc = "finally_join" /\ m_pc' = "exited"

\* the tracker as a stop() leaves it
Stopped == trk_thread = 0 /\ ~trk_active /\ ~trk_running

(***************************************************************************)
(* C12: stop() is idempotent: whenever stop() returns, active is false    *)
(* and no loop thread is registered, whatever the loop thread was doing;  *)
(* and a stop() called on a tracker that a stop() has already left        *)
(* stopped changes no field of the tracker.                               *)
(***************************************************************************)
C12_StopIdempotent ==
    [][ /\ StopReturnStep => (~trk_active' /\ trk_thread' = 0)
        /\ ((StopCallStep \/ StopReturnStep) /\ Stopped) => UNCHANGED trkVars ]_vars

\* a second stop() is about to return: the thread was deregistered by an earlier
\* stop() whose join expired, and is still alive
C12_Witness ==
    /\ n_pc = "stop_join"
    /\ Stopped
    /\ \E t \in Loops : l_pc[t] \in {"check", "callbacks", "sleep"}

(***************************************************************************)
(* C13: stop() always returns: a thread that is inside stop()'s join, in  *)
(* a stop command or in main()'s finally block, can take its next step    *)
(* whether or not the loop thread has exited, so a loop thread that never *)
(* exits wedges neither stop() nor the shutdown of the device.            *)
(***************************************************************************)
C13_StopReturns ==
    /\ (n_pc \in {"stop_join", "start_join"} /\ CanRun("net")) => ENABLED NetStopJoin
    /\ (m_pc = "finally_join" /\ CanRun("main")) => ENABLED MainFinallyJoin

\* the process has left its finally block while the loop thread had not exited
C13_Witness ==
    /\ m_pc = "exited"
    /\ trk_thread = 0
    /\ \E t \in Loops : l_pc[t] \in {"check", "callbacks", "sleep"}

(***************************************************************************)
(* C14: an accepted transition enters the requested state, sets           *)
(* state_since to the instant of the call, and sets error_detail to the   *)
(* supplied detail when the new state is ERROR and to the empty string    *)
(* otherwise; in every state a non-empty error_detail implies ERROR.      *)
(***************************************************************************)
C14_EntryRecorded ==
    /\ [](sm_error # "" => sm_state = ERROR)
    /\ [][ (sm_calls' = sm_calls + 1 /\ sm_req' \in TRANSITIONS[sm_state])
              => /\ sm_ret' = TRUE
                 /\ sm_state' = sm_req'
                 /\ sm_since' = clock
                 /\ sm_error' = IF sm_req' = ERROR THEN sm_det' ELSE "" ]_vars

\* ERROR was entered with a detail and then left by a call that supplied a detail
\* too, some time after construction
C14_Witness ==
    /\ sm_calls = 2
    /\ sm_state = READY
    /\ sm_req = READY
    /\ sm_det = "boom"
    /\ sm_error = ""
    /\ sm_since > ClockStart

(***************************************************************************)
(* C15: SHUTDOWN is terminal: once the state is SHUTDOWN no step of the   *)
(* maintenance loop, of a stop command's handler, of the tracking         *)
(* thread's natural end or of the signal handler changes the state, its   *)
(* entry instant or the error detail.                                     *)
(***************************************************************************)
C15_ShutdownTerminal ==
    [][ sm_state = SHUTDOWN
          => (sm_state' = SHUTDOWN /\ UNCHANGED <<sm_since, sm_error>>) ]_vars

\* the handler has set SHUTDOWN; the tracking thread, at its natural end, and the
\* stop command's handler are each about to ask for READY
C15_Witness ==
    /\ sm_state = SHUTDOWN
    /\ sig_pc = "done"
    /\ n_pc = "stop_transition"
    /\ \E t \in Loops : l_pc[t] = "end"

\* thread th ends the fan-out of its accepted transition
FanOutStep(th) == th \in cb_pending /\ th \notin cb_pending'

(***************************************************************************)
(* C16: when an observer raises during the fan-out of an accepted         *)
(* transition, the fan-out runs to its end (where transition returns      *)
(* True), the state change and the result recorded for the caller stay    *)
(* as they are, and the observer registered after the failing one is      *)
(* invoked: the state is published.                                       *)
(***************************************************************************)
C16_ObserverFailureContained ==
    [][ \A th \in Threads : (FanOutStep(th) /\ obs_raises) =>
          /\ UNCHANGED <<sm_state, sm_since, sm_error, sm_ret>>
          /\ obs_reg => pub_state' = StatePayload(None) ]_vars

\* a transition's fan-out has ended with a raising observer registered ahead of
\* the publishing one: the new state is in effect and published
C16_Witness ==
    /\ obs_raises
    /\ obs_reg
    /\ sm_calls = 1
    /\ sm_ret
    /\ cb_pending = {}
    /\ sm_state = INITIALIZING
    /\ pub_state.state = INITIALIZING

(***************************************************************************)
(* C17: with a telemetry callback that raises on every tick, the loop     *)
(* thread still invokes the callback registered after it (telemetry is    *)
(* published), goes on to its sleep and from there to the next tick, and  *)
(* leaves the loop only when stop() has cleared _running or the clock has *)
(* reached the pass-set instant.                                          *)
(***************************************************************************)
C17_CallbackFailureContained ==
    [][ \A t \in Loops : (LoopStep(t) /\ tel_raises) =>
          /\ l_pc[t] = "callbacks" => (l_pc'[t] = "sleep" /\ (obs_reg => pub_telem' = t))
          /\ l_pc[t] = "sleep" => l_pc'[t] = "check"
          /\ (l_pc[t] = "check" /\ l_pc'[t] \notin {"callbacks", "sleep"})
                => (~trk_running \/ clock >= l_set[t]) ]_vars

\* the thread is in a tick again after a tick whose first callback raised and
\* whose telemetry was published all the same
C17_Witness ==
    \E t \in Loops :
        /\ tel_raises
        /\ l_pc[t] = "callbacks"
        /\ pub_telem = t
        /\ trk_running
        /\ clock > ClockStart

\* the watchdog calls mqtt.force_reconnect() in this step
ForcedReconnectStep == WatchdogStep /\ m_lra' = m_now

(***************************************************************************)
(* C18: a watchdog pass that finds the link down and read TRACKING or     *)
(* DEGRADED forces a reconnect exactly when more than 30 s have passed    *)
(* since the last forced reconnect, so successive attempts of one outage  *)
(* are more than 30 s apart; the pass leaves the lifecycle state as it    *)
(* is.                                                                     *)
(***************************************************************************)
C18_ReconnectBackoff ==
    [][ (WatchdogStep /\ ~mq_connected /\ m_cur \in {TRACKING, DEGRADED}) =>
          /\ ForcedReconnectStep <=> (m_now - m_lra > RECONNECT_INTERVAL)
          /\ UNCHANGED <<sm_state, sm_since, sm_error>> ]_vars

\* TRACKING, the link still down: a second forced reconnect has just been made
C18_Witness ==
    /\ m_pc = "gps_recovery"
    /\ ~mq_connected
    /\ m_cur = TRACKING
    /\ sm_state = TRACKING
    /\ m_lra = m_now
    /\ m_now > ClockStart
    /\ link_down_at < ClockStart

(***************************************************************************)
(* C19: the hub never times a station out locally.  A station record's     *)
(* status changes (or the record appears) only in a step of the message    *)
(* handler, never in a step of the operator interface or while time passes,*)
(* and a two-part state handler changes only the station its message       *)
(* names: a station that reported "ready" keeps "ready" over a silence of  *)
(* 130 s.                                                                  *)
(***************************************************************************)
StatusChanged(s) ==
    \/ clients'[s] # clients[s]
    \/ clients[s] # 0 /\ heap'[clients'[s]].status # Rec(s).status

C19_NoLocalTimeout ==
    [][ \A s \in Stations :
          StatusChanged(s) =>
             /\ clock' = clock
             /\ UNCHANGED <<ui_pc, ui_c, ui_arg, cmds>>
             /\ h_pc # "idle" => h_msg.sid = s ]_vars

\* rpi-1 reported "ready", nothing else was ever handled, and 130 s went by
C19_Witness ==
    /\ clock >= ClockStart + SilenceGap
    /\ clients["rpi-1"] = 1
    /\ heap[1] = NewClientState(1, "ready")
    /\ clients["rpi-2"] = 0
    /\ nextRid = 2
    /\ h_pc = "idle"
    /\ ui_pc = "idle"
    /\ cmds = <<None, None>>

(***************************************************************************)
(* C20: once a late-joining hub has been handed every retained state and   *)
(* location message, in whichever order, each station has a record that    *)
(* holds the state and the GPS fix of the station's retained messages.     *)
(***************************************************************************)
C20_LateJoinComplete ==
    (bus.pending = {} /\ h_pc = "idle") =>
        \A m \in bus.retained :
            /\ clients[m.sid] # 0
            /\ m.topic = "state" => Rec(m.sid).status = m.state
            /\ m.topic = "location" => Rec(m.sid).gps = m.gps

(***************************************************************************)
(* C21: registry change notifications.  A thread runs _notify only while   *)
(* it does not hold the registry lock; every step that changes a station   *)
(* record (or adds one) is followed, in the same method call, by _notify   *)
(* from its first callback; _notify calls the callbacks one after the      *)
(* other, a raising one included, and the method returns to its caller     *)
(* only when all of them were called (or straight from a locked block that *)
(* changed nothing).                                                       *)
(***************************************************************************)
RecordsChanged == heap' # heap \/ clients' # clients

C21_NotifyAfterMutation ==
    /\ [](\A th \in AmThreads : am_th[th].pc = "notify" => am_lock # th)
    /\ [][ \A th \in AmThreads :
             am_th'[th] # am_th[th] =>
                /\ RecordsChanged =>
                      (am_th'[th].pc = "notify" /\ am_th'[th].i = 1)
                /\ (am_th[th].pc = "notify" /\ am_th'[th].pc = "notify") =>
                      am_th'[th].i = am_th[th].i + 1
                /\ (am_th[th].pc \notin {"idle", "acquire"} /\ am_th'[th].pc = "idle") =>
                      \/ am_th[th].pc = "notify" /\ am_th[th].i = Len(am_cbs) + 1
                      \/ am_th[th].pc = "section" /\ ~RecordsChanged ]_vars

\* update_location changed a record, the first callback raised, and the second
\* one, which reads the registry, is about to be called
C21_Witness ==
    /\ am_th["net"].pc = "notify"
    /\ am_th["net"].op = "update_location"
    /\ am_th["net"].i = 2
    /\ am_cbs = <<"raises", "reenters">>
    /\ clients[am_th["net"].sid] # 0
    /\ Rec(am_th["net"].sid).gps # None

\* the passes a returned find_passes call emitted
Emitted == IF pp_out.returned /\ pp_in.fn = "find_passes" THEN pp_out.passes ELSE <<>>

\* half the width of the bracket a bisection ends with: how far a rise or set
\* instant may lie from the crossing
Tolerance == Step \div 2 ^ (BisectIterations + 1)

(***************************************************************************)
(* C22: every pass find_passes returns has rise < set and a positive       *)
(* duration, and within the bisection tolerance of the midpoint of         *)
(* [rise, set] there is an instant at which the object is propagated and   *)
(* at or above the threshold.                                              *)
(***************************************************************************)
C22_PassMidpointVisible ==
    \A k \in 1..Len(Emitted) :
        LET p == Emitted[k]
            mid == (p.rise + p.set) \div 2
        IN /\ p.rise < p.set
           /\ p.duration_s > 0
           /\ \E m \in (mid - Tolerance)..(mid + Tolerance + 1) :
                  /\ Propagable(pp_in.sat, m)
                  /\ El(pp_in.sat, m) >= MIN_ELEVATION_DEG

\* the coarse scan instants of the window
CoarseInstants == Samples(pp_in.start, pp_in.end, Step)

(***************************************************************************)
(* C24: no pass find_passes returns spans a coarse scan instant at which   *)
(* the object could not be propagated; in particular an object that cannot *)
(* be propagated from some instant on is not reported in a pass up to the  *)
(* window end.                                                             *)
(***************************************************************************)
C24_NoPassAcrossFailure ==
    \A k \in 1..Len(Emitted) :
        \A t \in CoarseInstants :
            (Emitted[k].rise <= t /\ t <= Emitted[k].set) => Propagable(pp_in.sat, t)

(***************************************************************************)
(* C26: an object that is propagated and at or above the threshold at the  *)
(* window end, and propagated at the coarse instant before it, is in a     *)
(* pass at the window end: the last pass find_passes returns has set equal *)
(* to the window end and a positive duration.                              *)
(***************************************************************************)
C26_OpenPassClosedAtEnd ==
    ( /\ pp_out.returned
      /\ pp_in.fn = "find_passes"
      /\ Propagable(pp_in.sat, pp_in.end)
      /\ El(pp_in.sat, pp_in.end) >= MIN_ELEVATION_DEG
      /\ Propagable(pp_in.sat, pp_in.end - Step) ) =>
        /\ Emitted # <<>>
        /\ Emitted[Len(Emitted)].set = pp_in.end
        /\ Emitted[Len(Emitted)].rise < pp_in.end
        /\ Emitted[Len(Emitted)].duration_s = pp_in.end - Emitted[Len(Emitted)].rise

\* the object rose inside the last coarse step and is still up at the window end
C26_Witness ==
    /\ pp_out.returned
    /\ pp_in.fn = "find_passes"
    /\ pp_in.sat.fails = {}
    /\ pp_in.sat.above = (pp_in.end - 10)..pp_in.end
    /\ Len(Emitted) = 1
    /\ Emitted[1].set = pp_in.end
    /\ Emitted[1].rise > pp_in.end - Step

(***************************************************************************)
(* C29: every pass find_passes returns reports a peak elevation max_el of  *)
(* at least the visibility threshold.                                      *)
(***************************************************************************)
C29_PeakAtLeastThreshold ==
    \A k \in 1..Len(Emitted) : Emitted[k].max_el >= MIN_ELEVATION_DEG

\* what find_visible_now returned
Visible == IF pp_out.returned /\ pp_in.fn = "find_visible_now" THEN pp_out.visible ELSE <<>>

\* the element set of a returned entry (catalog ids are distinct in a list)
OmmOf(e) ==
    pp_in.data[CHOOSE i \in 1..Len(pp_in.data) : pp_in.data[i].NORAD_CAT_ID = e.norad_id]

\* C23: find_visible_now never returns an object whose elevation at the query
\* instant is below the threshold (or that has no position at it), and for
\* every returned object rise <= now <= set, also when the propagation fails
\* at instants before or after now.
C23_VisibleNowAboveThreshold ==
    \A k \in 1..Len(Visible) :
        LET e == Visible[k] IN
        /\ \E i \in 1..Len(pp_in.data) : pp_in.data[i].NORAD_CAT_ID = e.norad_id
        /\ Propagable(OmmOf(e), pp_in.now)
        /\ El(OmmOf(e), pp_in.now) >= MIN_ELEVATION_DEG
        /\ e.el = El(OmmOf(e), pp_in.now)
        /\ e.rise <= pp_in.now
        /\ pp_in.now <= e.set

\* an object up at now whose propagation fails at the scan instants before and
\* after now is returned with rise < now < set
C23_Witness ==
    /\ Len(Visible) = 1
    /\ Len(pp_in.data) = 1
    /\ pp_in.data[1].fails = PeakStep..VisTo
    /\ VisFrom \notin pp_in.data[1].above
    /\ Visible[1].rise < pp_in.now
    /\ pp_in.now < Visible[1].set
    /\ Visible[1].set < PeakStep

\* C28: in the list find_visible_now returns every favorited object comes
\* before every non-favorited one, and inside each of the two groups the
\* elevations at the query instant are non-increasing.
C28_FavoritesFirstByElevation ==
    \A i \in 1..Len(Visible) : \A j \in 1..Len(Visible) :
        /\ Visible[i].is_favorite = (Visible[i].norad_id \in pp_in.favorites)
        /\ i < j =>
             /\ Visible[j].is_favorite => Visible[i].is_favorite
             /\ Visible[i].is_favorite = Visible[j].is_favorite
                   => Visible[i].el >= Visible[j].el

\* three objects are up; the favorited one is the last and the lowest of the
\* input and the first of the result, the other two come by falling elevation
C28_Witness ==
    /\ Len(pp_in.data) = 3
    /\ Len(Visible) = 3
    /\ pp_in.favorites = {ListIds[3]}
    /\ pp_in.data[1].hi < pp_in.data[2].hi
    /\ pp_in.data[3].hi < pp_in.data[1].hi
    /\ Visible[1].norad_id = ListIds[3]
    /\ Visible[2].norad_id = ListIds[2]
    /\ Visible[3].norad_id = ListIds[1]

\* what predict_all_favorites returned
Results ==
    IF pp_out.returned /\ pp_in.fn = "predict_all_favorites" THEN pp_out.results ELSE <<>>

\* the passes find_passes gives for the object of the i-th favorite
PassesOfFavorite(i) ==
    LET nid == pp_in.favorites[i].norad_id IN
    IF InNoradMap(pp_in.data, nid)
    THEN LET ps == FindPasses(NoradMap(pp_in.data, nid), pp_in.start, pp_in.end)
         IN {ps[k] : k \in 1..Len(ps)}
    ELSE {}

\* its earliest max_per_sat passes
EarliestOfFavorite(i) ==
    {p \in PassesOfFavorite(i) :
        pp_in.max_per_sat.capped =>
            Cardinality({q \in PassesOfFavorite(i) : q.rise < p.rise}) < pp_in.max_per_sat.n}

\* every (favorite, pass) the uncapped-total list holds
AllRows ==
    {[name |-> i, norad_id |-> pp_in.favorites[i].norad_id, rise |-> p.rise, set |-> p.set,
      max_el |-> p.max_el, duration_s |-> p.duration_s] :
       <<i, p>> \in {ip \in (1..Len(pp_in.favorites)) \X UNION {PassesOfFavorite(j) :
                          j \in 1..Len(pp_in.favorites)} : ip[2] \in EarliestOfFavorite(ip[1])}}

\* r comes before s in the order "by rise, then by position of the favorite"
Before(r, s) == r.rise < s.rise \/ (r.rise = s.rise /\ r.name < s.name)

\* C27: predict_all_favorites returns the passes of the favorites by
\* non-decreasing rise, entries of equal rise in the order of the favorites
\* list; per object the earliest max_per_sat passes are kept; with max_total
\* the result is the first max_total entries of the sorted list.
C27_SortedStableCapped ==
    pp_out.returned /\ pp_in.fn = "predict_all_favorites" =>
        /\ \A i \in 1..Len(Results) : \A j \in 1..Len(Results) :
              i < j => Before(Results[i], Results[j])
        /\ \A i \in 1..Len(Results) : Results[i] \in AllRows
        /\ \A r \in AllRows :
              (\A i \in 1..Len(Results) : Results[i] # r) =>
                  /\ pp_in.max_total.capped
                  /\ Len(Results) = pp_in.max_total.n
                  /\ \A i \in 1..Len(Results) : Before(Results[i], r)

\* two favorites, listed against the order of satellite_data, whose objects
\* each have two passes with equal rise instants; one pass per object is kept
\* and the total is capped at one: the first favorite's first pass is returned
C27_Witness ==
    /\ Len(Results) = 1
    /\ Len(pp_in.favorites) = 2
    /\ pp_in.favorites[1].norad_id = ListIds[2]
    /\ pp_in.favorites[2].norad_id = ListIds[1]
    /\ Cardinality(PassesOfFavorite(1)) = 2
    /\ Cardinality(PassesOfFavorite(2)) = 2
    /\ pp_in.max_per_sat = Cap(1)
    /\ pp_in.max_total = Cap(1)
    /\ Results[1].name = 1
    /\ \A p \in PassesOfFavorite(2) : Results[1].rise <= p.rise
    /\ \E p \in PassesOfFavorite(2) : Results[1].rise = p.rise

\* what propagate_batch returned
Rows == IF pp_out.returned /\ pp_in.fn = "propagate_batch" THEN pp_out.rows ELSE <<>>

\* the propagator state cannot be built, or the propagation fails at the instant
FailsAt(omm, t) == ~omm.built \/ ~Propagable(omm, t)

\* the propagator state cannot be built, or no instant of the window propagates
FailsIn(omm, from, to) == ~omm.built \/ \A t \in from..to : ~Propagable(omm, t)

\* C25: a propagation failure never aborts a batch operation. In
\* predict_all_favorites, find_visible_now and propagate_batch an object whose
\* propagator state cannot be built, or whose propagation fails at the instant,
\* is skipped (propagate_batch: its row is marked as no data), and what is
\* returned for the other objects is what the call returns without the
\* failing objects in the input.
C25_FailureNeverAbortsBatch ==
    pp_out.returned =>
        /\ pp_in.fn = "find_visible_now" =>
              LET Ok(omm) == ~FailsAt(omm, pp_in.now) IN
              /\ \A k \in 1..Len(Visible) : \A i \in 1..Len(pp_in.data) :
                    pp_in.data[i].NORAD_CAT_ID = Visible[k].norad_id => Ok(pp_in.data[i])
              /\ Visible = FindVisibleNow(SelectSeq(pp_in.data, Ok), pp_in.now,
                                          pp_in.favorites)
        /\ pp_in.fn = "predict_all_favorites" =>
              LET Ok(omm) == ~FailsIn(omm, pp_in.start, pp_in.end) IN
              /\ \A k \in 1..Len(Results) : \A i \in 1..Len(pp_in.data) :
                    pp_in.data[i].NORAD_CAT_ID = Results[k].norad_id => Ok(pp_in.data[i])
              /\ Results = PredictAllFavorites(pp_in.favorites, SelectSeq(pp_in.data, Ok),
                                pp_in.start, pp_in.end, pp_in.max_per_sat, pp_in.max_total)
        /\ pp_in.fn = "propagate_batch" =>
              LET Ok(omm) == ~FailsAt(omm, pp_in.now)
                  Valid(row) == ~row.nan
              IN
              /\ Len(Rows) = Len(pp_in.data)
              /\ \A i \in 1..Len(Rows) :
                    /\ Rows[i].norad_id = pp_in.data[i].NORAD_CAT_ID
                    /\ Rows[i].nan = ~Ok(pp_in.data[i])
              /\ SelectSeq(Rows, Valid) =
                    PropagateBatch(SelectSeq(pp_in.data, Ok), pp_in.now,
                                   BuildSatrecArray(SelectSeq(pp_in.data, Ok)))

\* propagate_batch over three objects, the first with an element set that is
\* not valid and the second with a propagation failing at the instant: two
\* rows without data, and the third row holds the position
C25_Witness ==
    /\ Len(Rows) = 3
    /\ ~pp_in.data[1].built
    /\ pp_in.data[2].built /\ ~Propagable(pp_in.data[2], pp_in.now)
    /\ Rows[1].nan
    /\ Rows[2].nan
    /\ ~Rows[3].nan
    /\ Rows[3].pos = El(pp_in.data[3], pp_in.now)

\* C30: between two invalidations the cache builds a propagator state at most
\* once per catalog id that has a valid element set and reuses it on later
\* get_satrec calls; a cached state is the one derived from the element set
\* now loaded for its id, and so is every state get_satrec returns.
C30_CacheCoherent ==
    /\ [](\A n \in CatalogIds :
            /\ satrec_cache[n] # 0 =>
                  /\ satrec_cache[n] = OmmToSatrec(satellite_data[n])
                  /\ satrec_builds[n] = 1)
    /\ [][ satrec_ret'.calls = satrec_ret.calls + 1 =>
             LET n == satrec_ret'.id IN
             /\ satrec_ret'.omm = satellite_data[n]
             /\ ~satrec_ret'.raised =>
                   /\ satrec_ret'.state = OmmToSatrec(satellite_data[n])
                   /\ satrec_cache'[n] = satrec_ret'.state
             /\ satrec_ret'.built <=> satrec_cache[n] = 0
             /\ satrec_cache[n] # 0 =>
                   /\ satrec_ret'.state = satrec_cache[n]
                   /\ satrec_cache' = satrec_cache
                   /\ satrec_builds' = satrec_builds
             /\ satrec_ret'.raised <=> ~Buildable(satellite_data[n]) ]_vars

\* the last of several get_satrec calls found the state of its catalog id in
\* the cache and returned it: the state of the loaded element set, built once
\* since the last invalidation, while the other id has a state of its own
C30_Witness ==
    \E n \in CatalogIds :
        /\ satrec_ret.calls = MaxGets
        /\ satrec_ret.id = n
        /\ ~satrec_ret.built
        /\ ~satrec_ret.raised
        /\ satrec_ret.omm = satellite_data[n]
        /\ satrec_ret.state = OmmToSatrec(satellite_data[n])
        /\ satrec_cache[n] = satrec_ret.state
        /\ satrec_builds[n] = 1
        /\ \E m \in CatalogIds : satrec_cache[m] # 0 /\ satrec_cache[m] # satrec_cache[n]

\* C33: the passes one find_passes call returns are in strictly increasing
\* order of rise instant, lie inside the search window, and do not overlap:
\* the set instant of a pass is not later than the rise instant of the next.
C33_PassesOrderedInWindow ==
    \A k \in 1..Len(Emitted) :
        /\ pp_in.start <= Emitted[k].rise
        /\ Emitted[k].set <= pp_in.end
        /\ k < Len(Emitted) =>
              /\ Emitted[k].rise < Emitted[k + 1].rise
              /\ Emitted[k].set <= Emitted[k + 1].rise

\* two passes in one window: the first starts with the window, the second is
\* still open at its end, and the object is below the threshold in between
C33_Witness ==
    /\ Len(Emitted) = 2
    /\ Emitted[1].rise = pp_in.start
    /\ Emitted[1].set < Emitted[2].rise
    /\ Emitted[2].set = pp_in.end
    /\ pp_in.sat.fails = {}

\* the scan instants after / before the query instant
ForwardInstants == Samples(pp_in.now + PeakStep, pp_in.now + SetScanSteps * PeakStep, PeakStep)
BackwardInstants == Samples(pp_in.now - RiseScanSteps * PeakStep, pp_in.now - PeakStep, PeakStep)
UpAt(sat, t) == Propagable(sat, t) /\ El(sat, t) >= MIN_ELEVATION_DEG

\* C32: in find_visible_now the rise instant is never earlier than now minus
\* the lookback bound and the set instant never later than now plus the
\* lookahead bound; when the object is up at every scan instant inside a bound
\* (no crossing found) the bound itself is returned.
C32_ScanBounded ==
    \A k \in 1..Len(Visible) :
        LET e == Visible[k] IN
        /\ e.rise >= pp_in.now - RiseScanSteps * PeakStep
        /\ e.set <= pp_in.now + SetScanSteps * PeakStep
        /\ (\A t \in ForwardInstants : UpAt(OmmOf(e), t))
              => e.set = pp_in.now + SetScanSteps * PeakStep
        /\ (\A t \in BackwardInstants : UpAt(OmmOf(e), t))
              => e.rise = pp_in.now - RiseScanSteps * PeakStep
        /\ (\E t \in ForwardInstants : ~UpAt(OmmOf(e), t))
              => e.set < pp_in.now + SetScanSteps * PeakStep
        /\ (\E t \in BackwardInstants : ~UpAt(OmmOf(e), t))
              => e.rise > pp_in.now - RiseScanSteps * PeakStep

\* an object up at every scan instant of both scans, though not at every
\* instant between them, is returned with both bounds
C32_Witness ==
    /\ Len(Visible) = 1
    /\ Len(pp_in.data) = 1
    /\ pp_in.data[1].above # VisFrom..VisTo
    /\ Visible[1].rise = VisFrom
    /\ Visible[1].set = VisTo

\* C40: propagate_batch returns one row per input object in input order, row i
\* with the catalog id of satellites[i] and the position, or the no-data
\* marker, of that object, on the cached-array path as on the loop path.
C40_RowPerInputObject ==
    pp_out.returned /\ pp_in.fn = "propagate_batch" =>
        /\ Len(Rows) = Len(pp_in.data)
        /\ \A i \in 1..Len(Rows) :
              /\ Rows[i].norad_id = pp_in.data[i].NORAD_CAT_ID
              /\ Rows[i].nan = FailsAt(pp_in.data[i], pp_in.now)
              /\ ~Rows[i].nan => Rows[i].pos = El(pp_in.data[i], pp_in.now)

\* C31: a reader (propagate_batch or get_satrec) running while another thread
\* is in clear_satrec_cache / build_satrec_array ends without an error raised
\* by a cleared cache, and the array, the ids and the type indices it used all
\* come from one build.
C31_ReaderSeesOneBuild ==
    rd_th.pc = "done" =>
        /\ rd_th.error = "none"
        /\ rd_th.array = rd_th.ids
        /\ rd_th.types = rd_th.ids

\* a step of the maintenance loop inside its GPS recovery block
RecoveryStep ==
    /\ m_pc \in {"gps_recovery", "recovery_wait", "recovery_publish"}
    /\ m_pc' # m_pc

(***************************************************************************)
(* C36: the GPS recovery of the maintenance loop neither ends a tracking  *)
(* session's lifecycle state nor lifts a link degradation: a step of the  *)
(* recovery sequence taken while the device is TRACKING or DEGRADED       *)
(* leaves the lifecycle state as it is.                                    *)
(***************************************************************************)
C36_RecoveryKeepsState ==
    [][ (RecoveryStep /\ sm_state \in {TRACKING, DEGRADED}) => sm_state' = sm_state ]_vars

\* _handle_stop's last statement runs: the READY request of a stop command
StopCommandStep == n_pc = "stop_transition" /\ n_pc' = "idle"

(***************************************************************************)
(* C37: a stop command changes the lifecycle state only when the device   *)
(* is TRACKING: in every other state the stop handler leaves the          *)
(* lifecycle state as it is.                                               *)
(***************************************************************************)
C37_StopOnlyEndsTracking ==
    [][ (StopCommandStep /\ sm_state # TRACKING) => sm_state' = sm_state ]_vars

(***************************************************************************)
(* C34: a tracking session is active only while the lifecycle state is    *)
(* TRACKING: whenever TrackingLoop.active is true, StateManager.state is  *)
(* TRACKING.                                                              *)
(***************************************************************************)
C34_ActiveOnlyWhileTracking == trk_active => sm_state = TRACKING

\* track commands keep arriving for ever
CommandsForEver == []<>(n_pc = "track_check")

(***************************************************************************)
(* C35: a device that entered TRACKING on a track command eventually      *)
(* leaves TRACKING without a stop command, whatever payload passed the    *)
(* handler's checks (unless the hub never stops sending track commands).  *)
(***************************************************************************)
C35_TrackingEnds == CommandsForEver \/ ((sm_state = TRACKING) ~> (sm_state # TRACKING))

\* the same for the commands whose element record and set time start() accepts
C35_StartedSessionEnds == (<>(~n_msg.ok)) \/ C35_TrackingEnds

(***************************************************************************)
(* C39: the retained state message converges to the device's state: once  *)
(* no thread is left inside a transition's observers, the last message    *)
(* published on the state topic carries the StateManager's current state. *)
(***************************************************************************)
C39_PublishedStateCurrent == cb_pending = {} => pub_state.state = sm_state

\* the station's record is as mark_offline left it
MarkedOffline(sid) ==
    /\ Lookup(sid) # 0
    /\ heap[Lookup(sid)].status = "offline"
    /\ heap[Lookup(sid)].tracking = None

\* update_state runs for a state message of the station (its state is not "offline")
StateMessageStep(sid) == h_pc = "hs_update" /\ h_msg.sid = sid

\* a step of the hub's message handlers, not of the UI's push_track / push_stop
MessageStep == ui_pc' = ui_pc /\ cmds' = cmds

(***************************************************************************)
(* C38: a station the hub has marked offline stays "offline" with a null  *)
(* tracking target until a state message with another state is received   *)
(* from it: no telemetry, location or full-status message brings it back. *)
(***************************************************************************)
C38_OfflineUntilStateMessage ==
    [][ \A sid \in Stations :
          (MarkedOffline(sid) /\ MessageStep /\ ~StateMessageStep(sid))
              => (/\ heap'[Lookup(sid)].status = "offline"
                  /\ heap'[Lookup(sid)].tracking = None) ]_vars

====
